---- MODULE Spec2Model ----
(***************************************************************************)
(* Enrollment, approval, progress tracking and the course-content gate of  *)
(* the university portal (src/app.js), over the remote document store.     *)
(* Every store call (get / set) of a handler is one step, so that handlers *)
(* of several browser sessions interleave between their awaits.            *)
(***************************************************************************)
EXTENDS Integers, Sequences, FiniteSets, TLC

\* ---------------------------------------------------------------- bounds
MaxModules == 2      \* largest number of modules of a created course
MaxClock   == 3      \* largest value Date.now() returns
MaxTerms   == 1      \* largest number of academic terms created
MaxFetches == 2      \* largest number of fetchLessons calls awaiting fetch()

Users   == {"u1", "u2"}
Courses == {"c1", "c2"}
Procs   == {"p1", "p2"}      \* in-flight handlers (browser sessions)

None == "-"

VARIABLES
    enrolledCourses,   \* users/<uid>/enrolledCourses : the Enrollment list
    progress,          \* users/<uid>/progress/<courseId>
    courses,           \* courses/<courseId>
    now,               \* the latest reading of Date.now()
    pc,                \* position of each handler
    ctx,               \* arguments of each handler (userId, courseId, moduleId)
    readList,          \* enrolledCoursesArray / enrolledCourses local of a handler
    readCourse,        \* course local of a handler (module count)
    readCompleted,     \* completed local of markModuleComplete, userProg of the page
    userProgress,      \* userProgress argument of loadEnrolledCourses
    formData,          \* data / termData / fees local of a form handler
    page,              \* the course page a session shows, with its enabled buttons
    ui,                \* last message / button text shown to a user
    role,              \* users/<uid>/role
    email,             \* auth.currentUser.email of each identity
    feesBalance,       \* users/<uid>/feesBalance
    allUsersData,      \* allUsersData cache of an admin page
    adminView,         \* the user an admin page manages, with its Approve buttons
    academicTerms,     \* academicTerms/<termId>, in the order of their push()
    termOptions,       \* options of course-creation-term-select of an admin page
    forms,             \* values of the input fields of an admin page
    assignments,       \* courses/<courseId>/assignments : their due dates
    exams,             \* courses/<courseId>/exams : their dates
    academic,          \* now and the two counters of loadAcademicProgress
    academicProgress,  \* the three figures of the dashboard
    lessons,           \* SmartLearning: the lessons fetched
    fetches,           \* SmartLearning: calls of fetchLessons awaiting fetch()
    loading,           \* SmartLearning: state loading
    error,             \* SmartLearning: state error (a message is set)
    currentIndex,      \* SmartLearning: state currentIndex
    quiz,              \* SmartLearning: state quiz, its number of questions
    answers,           \* SmartLearning: state answers, how many are right
    score,             \* SmartLearning: state score
    smartProgress,     \* SmartLearning: state progress, by lesson key
    userGet            \* the user whose get() of loadUserData, called by
                       \* onAuthStateChanged at signup, is pending

vars == <<enrolledCourses, progress, courses, now, pc, ctx, readList,
          readCourse, readCompleted, userProgress, formData, page, ui,
          role, email, feesBalance, allUsersData, adminView,
          academicTerms, termOptions, forms,
          assignments, exams, academic, academicProgress,
          lessons, fetches, loading, error, currentIndex, quiz, answers, score,
          smartProgress, userGet>>

store  == <<enrolledCourses, progress, courses>>
locals == <<ctx, readList, readCourse, readCompleted, userProgress, formData,
           academic>>
identity == <<role, email, feesBalance>>
console  == <<allUsersData, adminView>>
elsewhere == <<academicTerms, termOptions>>
coursework == <<assignments, exams>>
smartLearning == <<lessons, fetches, loading, error, currentIndex, quiz, answers,
                   score, smartProgress>>

\* ------------------------------------------------------------ data model
NoCtx      == [u |-> None, c |-> None, m |-> -1]
NoPage     == [u |-> None, c |-> None, buttons |-> {}]
NoProgress == [completedModules |-> <<>>, totalModules |-> -1]
NoCourse   == [st |-> "never", modules |-> 0]
NoFees     == [amount |-> 0, currency |-> None]
NoView     == [on |-> FALSE, u |-> None, pending |-> <<>>]

\* userData.progress || {} : no Progress record for any course
NoUserProgress == [c \in Courses |-> NoProgress]

\* let allUsersData = {} : no user record for any user id
NoUsersData ==
    [u \in Users |-> [present |-> FALSE, enrolledCourses |-> <<>>, feesBalance |-> NoFees]]

\* feesBalance of the record the signup form stores
signupFees == [amount |-> 27500, currency |-> "MWK"]

\* the email of the account created for a user id at signup
EmailOf(u) == u \o "@mail"

\* course.title of a course record (a fixed title per course id)
TitleOf(c) == "title-" \o c

\* mutant: the request is stored with a status of its own
enrollmentData_requested(c, t) ==
    [courseId |-> c, enrollmentDate |-> t, title |-> TitleOf(c),
     currentStatus |-> "requested", lastAccessed |-> t]

\* enrollmentData of enrollInCourse
enrollmentData(c, t) ==
    [courseId |-> c, enrollmentDate |-> t, title |-> TitleOf(c),
     currentStatus |-> "pending_approval", lastAccessed |-> t]

\* Array.prototype.find / findIndex: the first matching position of a list,
\* given the set of matching positions; 0 when none matches (JS: -1)
firstIndex(matching) ==
    IF matching = {} THEN 0
    ELSE CHOOSE i \in matching : \A j \in matching : i <= j

\* mutant: the duplicate test compares the title instead of the courseId
isAlreadyEnrolled_byTitle(list, c) ==
    \E i \in DOMAIN list : list[i].title = c

\* enrolledCoursesArray.some(enrollment => enrollment.courseId === courseId)
isAlreadyEnrolled(list, c) ==
    \E i \in DOMAIN list : list[i].courseId = c

\* enrolledCoursesArray.find(enrollment => enrollment.courseId === courseId)
existingEnrollment(list, c) ==
    list[firstIndex({i \in DOMAIN list : list[i].courseId = c})]

\* mutant: the pending test is left out of the findIndex predicate
courseIndex_anyStatus(list, c) ==
    firstIndex({i \in DOMAIN list : list[i].courseId = c})

\* findIndex(ec => ec.courseId === courseIdToApprove && ec.currentStatus === 'pending_approval')
courseIndex(list, c) ==
    firstIndex({i \in DOMAIN list : /\ list[i].courseId = c
                                    /\ list[i].currentStatus = "pending_approval"})

\* mutant: only the last completed id is compared
includes_last(seq, m) == Len(seq) > 0 /\ seq[Len(seq)] = m

\* completed.includes(moduleId)
includes(seq, m) == \E i \in 1..Len(seq) : seq[i] = m

\* mutant: the status test is left out, any Enrollment grants access
canAccessCourseContent_anyEnrollment(list, c) ==
    IF ~isAlreadyEnrolled(list, c)
    THEN [granted |-> FALSE, reason |-> "NOT_ENROLLED"]
    ELSE [granted |-> TRUE, reason |-> "GRANTED"]

\* the gate of loadCourseDetailsWithAccessCheck
canAccessCourseContent(list, c) ==
    IF ~isAlreadyEnrolled(list, c)
    THEN [granted |-> FALSE, reason |-> "NOT_ENROLLED"]
    ELSE IF existingEnrollment(list, c).currentStatus # "active"
    THEN [granted |-> FALSE, reason |-> "ENROLLMENT_NOT_ACTIVE"]
    ELSE [granted |-> TRUE, reason |-> "GRANTED"]

\* the gate of initializeLearningPage
learningAccess(list, c) ==
    ~(~isAlreadyEnrolled(list, c)
      \/ existingEnrollment(list, c).currentStatus # "active")

\* the hardcoded operator address of the course-admin.html branch
operatorEmail == "chipimizere@gmail.com"

\* snapshot.val() of users/<uid> is not null: some field of the record exists
userDataExists(u) ==
    \/ role[u] # None
    \/ feesBalance[u] # NoFees
    \/ enrolledCourses[u] # <<>>
    \/ progress[u] # NoUserProgress

\* userData.role === 'admin' || userData.role === 'faculty'
canAccessAdminConsole(u) == userDataExists(u) /\ role[u] \in {"admin", "faculty"}

\* ec => ec.currentStatus === 'pending_approval'
isPending(ec) == ec.currentStatus = "pending_approval"

\* displayUserDetailsForAdmin(userId): the details of the selected user as the
\* cache holds them, one Approve button per pending enrollment; hidden when
\* the cache holds no record of the user
displayUserDetails(usersData, u) ==
    IF u = None \/ ~usersData[u].present
    THEN [on |-> TRUE, u |-> None, pending |-> <<>>]
    ELSE [on |-> TRUE, u |-> u,
          pending |-> SelectSeq(usersData[u].enrolledCourses, isPending)]

\* userProgress[courseId] || { completedModules: [], totalModules: course.modules?.length || 0 }
courseProg(userProg, c, modules) ==
    IF userProg[c] = NoProgress
    THEN [completedModules |-> <<>>, totalModules |-> modules]
    ELSE userProg[c]

\* courseProg.totalModules || (course.modules?.length || 0)
totalModules(prog, modules) ==
    IF prog.totalModules > 0 THEN prog.totalModules ELSE modules

\* (num / den).toFixed(0): the nearest integer, a half rounded up
toFixed0(num, den) == (2 * num + den) \div (2 * den)

\* mutant: a course without modules is shown as fully completed
progressPercent_fullWhenEmpty(completedCount, total) ==
    IF total > 0 THEN toFixed0(completedCount * 100, total) ELSE 100

\* totalModules > 0 ? (completedCount / totalModules) * 100 : 0, as the
\* progress bar shows it (progressPercent.toFixed(0))
progressPercent(completedCount, total) ==
    IF total > 0 THEN toFixed0(completedCount * 100, total) ELSE 0

\* the text of the progress bar of a dashboard card
progressBar(percent) == "progress: " \o ToString(percent) \o "%"

\* ------------------------------------------------- texts of input fields
\* The text of an input field is a sequence of characters; the characters
\* the model enters are decimal digits and the letter x.
Digits == <<"0", "1", "2", "3", "4", "5", "6", "7", "8", "9">>

isDigit(ch) == \E d \in DOMAIN Digits : Digits[d] = ch

digitValue(ch) == (CHOOSE d \in DOMAIN Digits : Digits[d] = ch) - 1

\* the longest prefix of a text that consists of digits
RECURSIVE leadingDigits(_)
leadingDigits(text) ==
    IF text = <<>> \/ ~isDigit(Head(text)) THEN <<>>
    ELSE <<Head(text)>> \o leadingDigits(Tail(text))

\* the number a sequence of digits denotes
RECURSIVE valueOf(_)
valueOf(digits) ==
    IF digits = <<>> THEN 0
    ELSE 10 * valueOf(SubSeq(digits, 1, Len(digits) - 1))
             + digitValue(digits[Len(digits)])

\* a JS number: NaN or a value
NaN == [nan |-> TRUE, val |-> 0]

\* parseFloat(text) / parseInt(text) on these texts: the number the leading
\* digits denote, whatever follows them; NaN when the text starts with no digit
parseFloat(text) ==
    IF leadingDigits(text) = <<>> THEN NaN
    ELSE [nan |-> FALSE, val |-> valueOf(leadingDigits(text))]

\* isNaN(number)
isNaN(number) == number.nan

\* String(n) of a non-negative integer
RECURSIVE toText(_)
toText(n) ==
    IF n < 10 THEN <<Digits[n + 1]>>
    ELSE toText(n \div 10) \o <<Digits[(n % 10) + 1]>>

\* the locals of loadAcademicProgress before its first get()
NoAcademic == [now |-> 0, assignmentsDueCount |-> 0, upcomingExamsCount |-> 0]

\* the three figures of the dashboard as the page is delivered; a figure is
\* a text
NoFigures == [coursesInProgress |-> <<>>, assignmentsDue |-> <<>>,
              upcomingExams |-> <<>>]

\* the value of <input type="date">: no date, or a day
NoDate == 0

\* the input fields of the three forms, all empty (the currency input has
\* no value until a user is selected)
NoForms ==
    [title |-> "", code |-> "", description |-> "", credits |-> <<>>,
     modules |-> 0, academicTermId |-> 0,
     termName |-> "", termYear |-> <<>>, termType |-> "",
     termStartDate |-> NoDate, termEndDate |-> NoDate,
     amount |-> <<>>, currency |-> ""]

\* displayUserDetailsForAdmin(userId): the fees inputs are filled from the
\* cache (feesBalance?.amount || '', feesBalance?.currency || 'MWK'); they
\* are left alone when the details are hidden
feesInputs(fields, usersData, u) ==
    IF u = None \/ ~usersData[u].present THEN fields
    ELSE LET fees == usersData[u].feesBalance IN
         [fields EXCEPT
            !.amount = IF fees = NoFees \/ fees.amount = 0 THEN <<>>
                       ELSE toText(fees.amount),
            !.currency = IF fees = NoFees \/ fees.currency = "" THEN "MWK"
                         ELSE fees.currency]

\* ------------------------------------------- SmartLearning (the component)
\* the prop minPassPercent, by default
minPassPercent == 60

\* state score before a quiz is graded: null
NoScore == -1

\* state quiz before a quiz is generated: null
NoQuiz == 0

\* a lesson of the API: its id ("" when it has none), the length of the quiz
\* it provides (0 when it provides none) and the sentences of its text
lesson(id, provided, sentences) ==
    [id |-> id, quiz |-> provided, sentences |-> sentences]

\* what fetch(lessonsApi) may answer: no lesson, or an array of lessons
LessonData ==
    {<<>>,
     <<lesson("a", 5, 0), lesson("b", 0, 3)>>,
     <<lesson("", 0, 0), lesson("b", 0, 3)>>}

\* `index-${currentIndex}`
indexKey(i) == "index-" \o <<"0", "1">>[i + 1]

\* the keys of state progress
LessonKeys == {"a", "b", indexKey(0), indexKey(1)}

\* lessons[currentIndex]?.id || `index-${currentIndex}` (currentIndex counts
\* from 0)
lessonKey(ls, i) ==
    IF i + 1 \in DOMAIN ls /\ ls[i + 1].id # "" THEN ls[i + 1].id ELSE indexKey(i)

\* progress[lessonId] of a lesson no quiz was graded for: undefined
NotAttempted == [attempted |-> FALSE, completed |-> FALSE, score |-> 0]

\* Math.round((correct / quiz.length) * 100)
percent(correct, length) == (200 * correct + length) \div (2 * length)

\* { completed: pct >= minPassPercent, score: pct, timestamp }
graded(pct) == [attempted |-> TRUE, completed |-> pct >= minPassPercent, score |-> pct]

\* generateQuizFromLesson(lesson, 3): the quiz the lesson provides, one
\* true/false question for a short text, else a question per sentence, at
\* most numQuestions
generateQuizFromLesson(l, numQuestions) ==
    IF l.quiz > 0 THEN l.quiz
    ELSE IF l.sentences = 0 THEN 1
    ELSE IF l.sentences < numQuestions THEN l.sentences ELSE numQuestions

\* the component after its first render and its mount effect: fetchLessons()
\* has been called
mounted ==
    /\ lessons = <<>>
    /\ fetches = 1
    /\ loading = TRUE
    /\ error = FALSE
    /\ currentIndex = 0
    /\ quiz = NoQuiz
    /\ answers = 0
    /\ score = NoScore

\* everything but the component
college == <<store, now, pc, locals, page, identity, console, elsewhere, forms,
             coursework, academicProgress, userGet>>

\* the lesson panel is rendered: {!loading && !error && lessons.length > 0}
lessonPanel == ~loading /\ ~error /\ lessons # <<>>

\* click on "Refresh lessons": fetchLessons() up to its await fetch()
fetchLessons ==
    /\ fetches < MaxFetches
    /\ fetches' = fetches + 1
    /\ loading' = TRUE
    /\ error' = FALSE
    /\ ui' = "none"
    /\ UNCHANGED <<lessons, currentIndex, quiz, answers, score, smartProgress>>
    /\ UNCHANGED college

\* fetchLessons() from the answer of fetch() on: an empty answer sets the
\* error, an array is kept and currentIndex brought within its bounds
fetchResolves(data) ==
    /\ fetches > 0
    /\ fetches' = fetches - 1
    /\ loading' = FALSE
    /\ ui' = "none"
    /\ IF data = <<>>
       THEN /\ error' = TRUE
            /\ lessons' = <<>>
            /\ UNCHANGED currentIndex
       ELSE /\ lessons' = data
            /\ currentIndex' = IF currentIndex < Len(data) - 1
                               THEN currentIndex ELSE Len(data) - 1
            /\ UNCHANGED error
    /\ UNCHANGED <<quiz, answers, score, smartProgress>>
    /\ UNCHANGED college

\* fetchLessons(): fetch() is rejected or answers with a status that is not
\* ok, the catch block
fetchRejects ==
    /\ fetches > 0
    /\ fetches' = fetches - 1
    /\ loading' = FALSE
    /\ error' = TRUE
    /\ lessons' = <<>>
    /\ ui' = "none"
    /\ UNCHANGED <<currentIndex, quiz, answers, score, smartProgress>>
    /\ UNCHANGED college

\* click on "Generate quiz"
handleGenerateQuiz ==
    /\ lessonPanel
    /\ ui' = "none"
    /\ IF currentIndex + 1 \in DOMAIN lessons
       THEN /\ quiz' = generateQuizFromLesson(lessons[currentIndex + 1], 3)
            /\ answers' = 0
            /\ score' = NoScore
       ELSE UNCHANGED <<quiz, answers, score>>
    /\ UNCHANGED <<lessons, fetches, loading, error, currentIndex, smartProgress>>
    /\ UNCHANGED college

\* the radio buttons of the quiz: after the change, right of the answers
\* are the expected ones
handleAnswerChange(right) ==
    /\ quiz # NoQuiz
    /\ right \in 0..quiz
    /\ answers' = right
    /\ ui' = "none"
    /\ UNCHANGED <<lessons, fetches, loading, error, currentIndex, quiz, score,
                   smartProgress>>
    /\ UNCHANGED college

\* submit of the quiz form
gradeQuiz ==
    /\ quiz # NoQuiz
    /\ LET pct == percent(answers, quiz)
       IN /\ score' = pct
          /\ smartProgress' = [smartProgress EXCEPT
                 ![lessonKey(lessons, currentIndex)] = graded(pct)]
    /\ ui' = "none"
    /\ UNCHANGED <<lessons, fetches, loading, error, currentIndex, quiz, answers>>
    /\ UNCHANGED college

\* click on "Clear"
clearQuiz ==
    /\ quiz # NoQuiz
    /\ quiz' = NoQuiz
    /\ answers' = 0
    /\ score' = NoScore
    /\ ui' = "none"
    /\ UNCHANGED <<lessons, fetches, loading, error, currentIndex, smartProgress>>
    /\ UNCHANGED college

\* mutant: a lesson that was attempted unlocks the next one
canGoToNext_attempted ==
    smartProgress[lessonKey(lessons, currentIndex)].attempted

\* progress[lessonId] && progress[lessonId].completed
canGoToNext ==
    /\ smartProgress[lessonKey(lessons, currentIndex)].attempted
    /\ smartProgress[lessonKey(lessons, currentIndex)].completed

\* click on "Next" (disabled at the last lesson)
goNext ==
    /\ lessonPanel
    /\ currentIndex < Len(lessons) - 1
    /\ IF ~canGoToNext
       THEN /\ ui' = "Please complete this lesson (pass the quiz) to unlock the next lesson."
            /\ UNCHANGED <<currentIndex, quiz, answers, score>>
       ELSE /\ ui' = "none"
            /\ currentIndex' = IF currentIndex + 1 < Len(lessons) - 1
                               THEN currentIndex + 1 ELSE Len(lessons) - 1
            /\ quiz' = NoQuiz
            /\ answers' = 0
            /\ score' = NoScore
    /\ UNCHANGED <<lessons, fetches, loading, error, smartProgress>>
    /\ UNCHANGED college

\* click on "Prev" (disabled at the first lesson)
goPrev ==
    /\ lessonPanel
    /\ currentIndex # 0
    /\ currentIndex' = IF currentIndex - 1 > 0 THEN currentIndex - 1 ELSE 0
    /\ quiz' = NoQuiz
    /\ answers' = 0
    /\ score' = NoScore
    /\ ui' = "none"
    /\ UNCHANGED <<lessons, fetches, loading, error, smartProgress>>
    /\ UNCHANGED college

\* ------------------------------------------------------------------ Init
\* no handler is in flight, no page is open, the SmartLearning component has
\* been mounted
InitPages ==
    /\ pc = [p \in Procs |-> "idle"]
    /\ ctx = [p \in Procs |-> NoCtx]
    /\ readList = [p \in Procs |-> <<>>]
    /\ readCourse = [p \in Procs |-> -1]
    /\ readCompleted = [p \in Procs |-> <<>>]
    /\ userProgress = [p \in Procs |-> NoUserProgress]
    /\ formData = [p \in Procs |-> NoForms]
    /\ academic = [p \in Procs |-> NoAcademic]
    /\ academicProgress = [p \in Procs |-> NoFigures]
    /\ page = [p \in Procs |-> NoPage]
    /\ ui = "none"
    /\ allUsersData = [p \in Procs |-> NoUsersData]
    /\ adminView = [p \in Procs |-> NoView]
    /\ termOptions = [p \in Procs |-> 0]
    /\ forms = [p \in Procs |-> NoForms]
    /\ userGet = [p \in Procs |-> None]
    /\ mounted

\* ... and localStorage holds no progress of lessons
InitSessions ==
    /\ InitPages
    /\ smartProgress = [k \in LessonKeys |-> NotAttempted]

\* no course, no Enrollment, no Progress record
InitStore ==
    /\ enrolledCourses = [u \in Users |-> <<>>]
    /\ progress = [u \in Users |-> NoUserProgress]
    /\ courses = [c \in Courses |-> NoCourse]
    /\ academicTerms = <<>>
    /\ assignments = [c \in Courses |-> <<>>]
    /\ exams = [c \in Courses |-> <<>>]
    /\ now = 0

\* two accounts created through the signup form (role 'student'), no course
Init ==
    /\ InitSessions
    /\ InitStore
    /\ role = [u \in Users |-> "student"]
    /\ email = [u \in Users |-> EmailOf(u)]
    /\ feesBalance = [u \in Users |-> signupFees]

\* Date.now(): every reading is later than the one before it
DateNow == now + 1

\* a handler returns: its locals are dropped
Return(p) ==
    /\ pc' = [pc EXCEPT ![p] = "idle"]
    /\ ctx' = [ctx EXCEPT ![p] = NoCtx]
    /\ readList' = [readList EXCEPT ![p] = <<>>]
    /\ readCourse' = [readCourse EXCEPT ![p] = -1]
    /\ readCompleted' = [readCompleted EXCEPT ![p] = <<>>]
    /\ userProgress' = [userProgress EXCEPT ![p] = NoUserProgress]
    /\ formData' = [formData EXCEPT ![p] = NoForms]
    /\ academic' = [academic EXCEPT ![p] = NoAcademic]

\* the click handler of an Approve button, after approveCourseEnrollment has
\* returned: displayUserDetailsForAdmin(userId), from the cache
redisplay(p) ==
    /\ adminView' = [adminView EXCEPT ![p] =
                        IF @.on THEN displayUserDetails(allUsersData[p], @.u) ELSE @]
    /\ forms' = [forms EXCEPT ![p] =
                    IF adminView[p].on
                    THEN feesInputs(@, allUsersData[p], adminView[p].u) ELSE @]

\* ----------------------------------------------------- the course catalog
\* createCourseForm submit handler: a new course under a fresh push() id,
\* with one module per non-empty line of the modules input
createCourse(c, n) ==
    /\ courses[c].st = "never"
    /\ courses' = [courses EXCEPT ![c] = [st |-> "live", modules |-> n]]
    /\ assignments' = [assignments EXCEPT ![c] = <<>>]
    /\ exams' = [exams EXCEPT ![c] = <<>>]
    /\ UNCHANGED <<enrolledCourses, progress, now, pc, locals, page>>
    /\ ui' = "none"
    /\ UNCHANGED <<identity, userGet, smartLearning, academicProgress, elsewhere, forms, console>>

\* deleteCourseBtn click handler: set(courseRef, null)
deleteCourse(c) ==
    /\ courses[c].st = "live"
    /\ courses' = [courses EXCEPT ![c] = [st |-> "deleted", modules |-> 0]]
    /\ assignments' = [assignments EXCEPT ![c] = <<>>]
    /\ exams' = [exams EXCEPT ![c] = <<>>]
    /\ UNCHANGED <<enrolledCourses, progress, now, pc, locals, page>>
    /\ ui' = "none"
    /\ UNCHANGED <<identity, userGet, smartLearning, academicProgress, elsewhere, forms, console>>

\* ---------------------------------------------------------- enrollInCourse
\* click on an .enroll-btn of the catalog page (possibly rendered earlier)
enrollInCourse(p, u, c) ==
    /\ pc[p] = "idle" /\ page[p] = NoPage /\ ~adminView[p].on
    /\ courses[c].st # "never"
    /\ pc' = [pc EXCEPT ![p] = "enroll_get_list"]
    /\ ctx' = [ctx EXCEPT ![p] = [u |-> u, c |-> c, m |-> -1]]
    /\ UNCHANGED <<store, now, readList, readCourse, readCompleted, page, userProgress, formData, academic>>
    /\ ui' = "none"
    /\ UNCHANGED <<identity, userGet, smartLearning, coursework, academicProgress, elsewhere, forms, console>>

\* mutant: the button text does not depend on the existing status
enrollGetList_alwaysPending(p) ==
    /\ pc[p] = "enroll_get_list"
    /\ LET list == enrolledCourses[ctx[p].u] IN
       IF ~isAlreadyEnrolled(list, ctx[p].c)
       THEN /\ readList' = [readList EXCEPT ![p] = list]
            /\ pc' = [pc EXCEPT ![p] = "enroll_get_course"]
            /\ UNCHANGED <<ctx, readCourse, readCompleted, userProgress, formData, academic>>
            /\ ui' = "none"
       ELSE /\ ui' = "already: Enrollment Pending"
            /\ Return(p)
    /\ UNCHANGED <<store, now, page>>
    /\ UNCHANGED <<identity, userGet, smartLearning, coursework, academicProgress, elsewhere, forms, console>>

\* await get(userCoursesDbRef), then the isAlreadyEnrolled branch
enrollGetList(p) ==
    /\ pc[p] = "enroll_get_list"
    /\ LET list == enrolledCourses[ctx[p].u] IN
       IF ~isAlreadyEnrolled(list, ctx[p].c)
       THEN /\ readList' = [readList EXCEPT ![p] = list]
            /\ pc' = [pc EXCEPT ![p] = "enroll_get_course"]
            /\ UNCHANGED <<ctx, readCourse, readCompleted, userProgress, formData, academic>>
            /\ ui' = "none"
       ELSE /\ ui' = (IF existingEnrollment(list, ctx[p].c).currentStatus = "pending_approval"
                      THEN "already: Enrollment Pending" ELSE "already: Enrolled")
            /\ Return(p)
    /\ UNCHANGED <<store, now, page>>
    /\ UNCHANGED <<identity, userGet, smartLearning, coursework, academicProgress, elsewhere, forms, console>>

\* mutant: the list written holds the new record only
enrollGetCourse_fresh(p) ==
    /\ pc[p] = "enroll_get_course"
    /\ IF courses[ctx[p].c].st # "live"
       THEN /\ ui' = "Error: Course details not found."
            /\ Return(p)
            /\ UNCHANGED now
       ELSE /\ now < MaxClock
            /\ now' = DateNow
            /\ readCourse' = [readCourse EXCEPT ![p] = courses[ctx[p].c].modules]
            /\ readList' = [readList EXCEPT ![p] = <<enrollmentData(ctx[p].c, DateNow)>>]
            /\ pc' = [pc EXCEPT ![p] = "enroll_set_list"]
            /\ UNCHANGED <<ctx, readCompleted, userProgress, formData, academic>>
            /\ ui' = "none"
    /\ UNCHANGED <<store, page>>
    /\ UNCHANGED <<identity, userGet, smartLearning, coursework, academicProgress, elsewhere, forms, console>>

\* mutant: an absent course is enrolled in as "Untitled Course"
enrollGetCourse_untitled(p) ==
    /\ pc[p] = "enroll_get_course"
    /\ now < MaxClock
    /\ now' = DateNow
    /\ readCourse' = [readCourse EXCEPT ![p] = courses[ctx[p].c].modules]
    /\ readList' = [readList EXCEPT ![p] =
                       Append(@, enrollmentData(ctx[p].c, DateNow))]
    /\ pc' = [pc EXCEPT ![p] = "enroll_set_list"]
    /\ UNCHANGED <<ctx, readCompleted, userProgress, formData, academic>>
    /\ ui' = "none"
    /\ UNCHANGED <<store, page>>
    /\ UNCHANGED <<identity, userGet, smartLearning, coursework, academicProgress, elsewhere, forms, console>>

\* await get(ref(db, 'courses/' + courseId)), then push(enrollmentData)
enrollGetCourse(p) ==
    /\ pc[p] = "enroll_get_course"
    /\ IF courses[ctx[p].c].st # "live"
       THEN /\ ui' = "Error: Course details not found."
            /\ Return(p)
            /\ UNCHANGED now
       ELSE /\ now < MaxClock
            /\ now' = DateNow
            /\ readCourse' = [readCourse EXCEPT ![p] = courses[ctx[p].c].modules]
            /\ readList' = [readList EXCEPT ![p] =
                               Append(@, enrollmentData(ctx[p].c, DateNow))]
            /\ pc' = [pc EXCEPT ![p] = "enroll_set_list"]
            /\ UNCHANGED <<ctx, readCompleted, userProgress, formData, academic>>
            /\ ui' = "none"
    /\ UNCHANGED <<store, page>>
    /\ UNCHANGED <<identity, userGet, smartLearning, coursework, academicProgress, elsewhere, forms, console>>

\* mutant: every record of the written list is reset to pending_approval
enrollSetList_resetsStatus(p) ==
    /\ pc[p] = "enroll_set_list"
    /\ enrolledCourses' = [enrolledCourses EXCEPT ![ctx[p].u] =
           [i \in DOMAIN readList[p] |->
               [readList[p][i] EXCEPT !.currentStatus = "pending_approval"]]]
    /\ ui' = "Successfully enrolled: Enrollment Pending"
    /\ pc' = [pc EXCEPT ![p] = "enroll_set_progress"]
    /\ UNCHANGED <<progress, courses, now, locals, page>>
    /\ UNCHANGED <<identity, userGet, smartLearning, coursework, academicProgress, elsewhere, forms, console>>

\* await set(userCoursesDbRef, enrolledCoursesArray), then the alert
enrollSetList(p) ==
    /\ pc[p] = "enroll_set_list"
    /\ enrolledCourses' = [enrolledCourses EXCEPT ![ctx[p].u] = readList[p]]
    /\ ui' = "Successfully enrolled: Enrollment Pending"
    /\ pc' = [pc EXCEPT ![p] = "enroll_set_progress"]
    /\ UNCHANGED <<progress, courses, now, locals, page>>
    /\ UNCHANGED <<identity, userGet, smartLearning, coursework, academicProgress, elsewhere, forms, console>>

\* mutant: totalModules is not taken from the course
enrollSetProgress_zeroTotal(p) ==
    /\ pc[p] = "enroll_set_progress"
    /\ progress' = [progress EXCEPT ![ctx[p].u][ctx[p].c] =
                       [completedModules |-> <<>>, totalModules |-> 0]]
    /\ Return(p)
    /\ UNCHANGED <<enrolledCourses, courses, now, page>>
    /\ ui' = "none"
    /\ UNCHANGED <<identity, userGet, smartLearning, coursework, academicProgress, elsewhere, forms, console>>

\* mutant: the Progress record is not written
enrollSetProgress_skipped(p) ==
    /\ pc[p] = "enroll_set_progress"
    /\ Return(p)
    /\ UNCHANGED <<store, now, page>>
    /\ ui' = "none"
    /\ UNCHANGED <<identity, userGet, smartLearning, coursework, academicProgress, elsewhere, forms, console>>

\* await set(userProgressDbRef, {completedModules: [], totalModules, ...})
enrollSetProgress(p) ==
    /\ pc[p] = "enroll_set_progress"
    /\ progress' = [progress EXCEPT ![ctx[p].u][ctx[p].c] =
                       [completedModules |-> <<>>, totalModules |-> readCourse[p]]]
    /\ Return(p)
    /\ UNCHANGED <<enrolledCourses, courses, now, page>>
    /\ ui' = "none"
    /\ UNCHANGED <<identity, userGet, smartLearning, coursework, academicProgress, elsewhere, forms, console>>

\* ------------------------------------------------- approveCourseEnrollment
\* click on an .approve-enrollment-btn of the admin view
approveCourseEnrollment(p, u, c) ==
    /\ pc[p] = "idle" /\ page[p] = NoPage /\ ~adminView[p].on
    /\ pc' = [pc EXCEPT ![p] = "approve_get"]
    /\ ctx' = [ctx EXCEPT ![p] = [u |-> u, c |-> c, m |-> -1]]
    /\ UNCHANGED <<store, now, readList, readCourse, readCompleted, page, userProgress, formData, academic>>
    /\ ui' = "none"
    /\ UNCHANGED <<identity, userGet, smartLearning, coursework, academicProgress, elsewhere, forms, console>>

\* mutant: every pending record of the list is activated, not only courseIndex
approveGet_bulk(p) ==
    /\ pc[p] = "approve_get"
    /\ LET list == enrolledCourses[ctx[p].u]
           i    == courseIndex(list, ctx[p].c)
       IN IF i > 0
          THEN /\ now < MaxClock
               /\ now' = DateNow
               /\ readList' = [readList EXCEPT ![p] =
                      [j \in DOMAIN list |->
                          IF list[j].currentStatus = "pending_approval"
                          THEN [list[j] EXCEPT !.currentStatus = "active",
                                               !.lastAccessed = DateNow]
                          ELSE list[j]]]
               /\ pc' = [pc EXCEPT ![p] = "approve_set"]
               /\ UNCHANGED <<ctx, readCourse, readCompleted, userProgress, formData, academic>>
               /\ ui' = "none"
          ELSE /\ ui' = "Could not find pending enrollment"
               /\ Return(p)
               /\ UNCHANGED now
    /\ UNCHANGED <<store, page>>
    /\ UNCHANGED <<identity, userGet, smartLearning, coursework, academicProgress, elsewhere, allUsersData>>
    /\ redisplay(p)

\* await get(userEnrollmentsRef), findIndex, the two assignments
approveGet(p) ==
    /\ pc[p] = "approve_get"
    /\ LET list == enrolledCourses[ctx[p].u]
           i    == courseIndex(list, ctx[p].c)
       IN IF i > 0
          THEN /\ now < MaxClock
               /\ now' = DateNow
               /\ readList' = [readList EXCEPT ![p] =
                                  [list EXCEPT ![i].currentStatus = "active",
                                               ![i].lastAccessed = DateNow]]
               /\ pc' = [pc EXCEPT ![p] = "approve_set"]
               /\ UNCHANGED <<ctx, readCourse, readCompleted, userProgress, formData, academic>>
               /\ ui' = "none"
          ELSE /\ ui' = "Could not find pending enrollment"
               /\ Return(p)
               /\ UNCHANGED now
    /\ UNCHANGED <<store, page>>
    /\ UNCHANGED <<identity, userGet, smartLearning, coursework, academicProgress, elsewhere, allUsersData>>
    /\ redisplay(p)

\* mutant: the write is arbitrated, a call whose record is no longer pending
\* in the store gives up
approveSet_arbitrated(p) ==
    /\ pc[p] = "approve_set"
    /\ IF courseIndex(enrolledCourses[ctx[p].u], ctx[p].c) > 0
       THEN /\ enrolledCourses' = [enrolledCourses EXCEPT ![ctx[p].u] = readList[p]]
            /\ ui' = "Enrollment approved"
       ELSE /\ UNCHANGED enrolledCourses
            /\ ui' = "Could not find pending enrollment"
    /\ Return(p)
    /\ UNCHANGED <<progress, courses, now, page>>
    /\ UNCHANGED <<identity, userGet, smartLearning, coursework, academicProgress, elsewhere, allUsersData>>
    /\ redisplay(p)

\* await set(userEnrollmentsRef, enrolledCourses), then the alert
approveSet(p) ==
    /\ pc[p] = "approve_set"
    /\ enrolledCourses' = [enrolledCourses EXCEPT ![ctx[p].u] = readList[p]]
    /\ ui' = "Enrollment approved"
    /\ Return(p)
    /\ UNCHANGED <<progress, courses, now, page>>
    /\ UNCHANGED <<identity, userGet, smartLearning, coursework, academicProgress, elsewhere, allUsersData>>
    /\ redisplay(p)

\* ------------------------------------------------ the protected page loads
\* onAuthStateChanged -> loadUserData(user) on course.html?id=c
loadUserData(p, u, c) ==
    /\ pc[p] = "idle" /\ page[p] = NoPage /\ ~adminView[p].on
    /\ pc' = [pc EXCEPT ![p] = "page_get_user"]
    /\ ctx' = [ctx EXCEPT ![p] = [u |-> u, c |-> c, m |-> -1]]
    /\ UNCHANGED <<store, now, readList, readCourse, readCompleted, page, userProgress, formData, academic>>
    /\ ui' = "none"
    /\ UNCHANGED <<identity, userGet, smartLearning, coursework, academicProgress, elsewhere, forms, console>>

\* mutant: a member of staff passes the gate without an active Enrollment
loadCourseDetailsWithAccessCheck_staffBypass(p) ==
    /\ pc[p] = "page_get_user"
    /\ LET gate == canAccessCourseContent(enrolledCourses[ctx[p].u], ctx[p].c)
           staff == role[ctx[p].u] \in {"admin", "faculty"}
       IN
       IF ~userDataExists(ctx[p].u)
       THEN /\ ui' = "none"
            /\ Return(p)
       ELSE /\ ui' = (IF staff THEN "GRANTED" ELSE gate.reason)
            /\ IF gate.granted \/ staff
               THEN /\ pc' = [pc EXCEPT ![p] = "page_get_course"]
                    /\ UNCHANGED locals
               ELSE Return(p)
    /\ UNCHANGED <<store, now, page>>
    /\ UNCHANGED <<identity, userGet, smartLearning, coursework, academicProgress, elsewhere, forms, console>>

\* get(userDbRef).then(...) -> loadCourseDetailsWithAccessCheck: the gate
\* (nothing is rendered when the user has no record)
loadCourseDetailsWithAccessCheck(p) ==
    /\ pc[p] = "page_get_user"
    /\ LET gate == canAccessCourseContent(enrolledCourses[ctx[p].u], ctx[p].c) IN
       IF ~userDataExists(ctx[p].u)
       THEN /\ ui' = "none"
            /\ Return(p)
       ELSE /\ ui' = gate.reason
            /\ IF gate.granted
               THEN /\ pc' = [pc EXCEPT ![p] = "page_get_course"]
                    /\ UNCHANGED locals
               ELSE Return(p)
    /\ UNCHANGED <<store, now, page>>
    /\ UNCHANGED <<identity, userGet, smartLearning, coursework, academicProgress, elsewhere, forms, console>>

\* await get(ref(db, 'courses/' + courseId))
pageGetCourse(p) ==
    /\ pc[p] = "page_get_course"
    /\ readCourse' = [readCourse EXCEPT ![p] =
                         IF courses[ctx[p].c].st = "live"
                         THEN courses[ctx[p].c].modules ELSE -1]
    /\ pc' = [pc EXCEPT ![p] = "page_get_progress"]
    /\ UNCHANGED <<store, now, ctx, readList, readCompleted, page, userProgress, formData, academic>>
    /\ ui' = "none"
    /\ UNCHANGED <<identity, userGet, smartLearning, coursework, academicProgress, elsewhere, forms, console>>

\* await get(progress/<courseId>), then the module list with its
\* mark-complete buttons (disabled for completed modules)
pageGetProgress(p) ==
    /\ pc[p] = "page_get_progress"
    /\ LET userProg == progress[ctx[p].u][ctx[p].c].completedModules IN
       IF readCourse[p] >= 0
       THEN /\ page' = [page EXCEPT ![p] =
                           [u |-> ctx[p].u, c |-> ctx[p].c,
                            buttons |-> {m \in 0..(readCourse[p] - 1) :
                                            ~includes(userProg, m)}]]
            /\ ui' = "none"
       ELSE /\ ui' = "Course details not found."
            /\ UNCHANGED page
    /\ Return(p)
    /\ UNCHANGED <<store, now>>
    /\ UNCHANGED <<identity, userGet, smartLearning, coursework, academicProgress, elsewhere, forms, console>>

\* the user navigates away from the course page
leavePage(p) ==
    /\ pc[p] = "idle" /\ page[p] # NoPage
    /\ page' = [page EXCEPT ![p] = NoPage]
    /\ UNCHANGED <<store, now, pc, locals>>
    /\ ui' = "none"
    /\ UNCHANGED <<identity, userGet, smartLearning, coursework, academicProgress, elsewhere, forms, console>>

\* onAuthStateChanged -> loadUserData(user) on learning.html?id=c
loadLearningPage(p, u, c) ==
    /\ pc[p] = "idle" /\ page[p] = NoPage /\ ~adminView[p].on
    /\ pc' = [pc EXCEPT ![p] = "learn_get_user"]
    /\ ctx' = [ctx EXCEPT ![p] = [u |-> u, c |-> c, m |-> -1]]
    /\ UNCHANGED <<store, now, readList, readCourse, readCompleted, page, userProgress, formData, academic>>
    /\ ui' = "none"
    /\ UNCHANGED <<identity, userGet, smartLearning, coursework, academicProgress, elsewhere, forms, console>>

\* get(userDbRef).then(...) -> initializeLearningPage: the access check
\* (nothing is rendered when the user has no record)
initializeLearningPage(p) ==
    /\ pc[p] = "learn_get_user"
    /\ ui' = (IF ~userDataExists(ctx[p].u) THEN "none"
              ELSE IF learningAccess(enrolledCourses[ctx[p].u], ctx[p].c)
              THEN "learning: content" ELSE "learning: Access Denied")
    /\ Return(p)
    /\ UNCHANGED <<store, now, page>>
    /\ UNCHANGED <<identity, userGet, smartLearning, coursework, academicProgress, elsewhere, forms, console>>

\* ------------------------------------------------------------ the dashboard
\* onAuthStateChanged -> loadUserData(user) on dashboard.html
loadDashboard(p, u) ==
    /\ pc[p] = "idle" /\ page[p] = NoPage /\ ~adminView[p].on
    /\ pc' = [pc EXCEPT ![p] = "dash_get_user"]
    /\ ctx' = [ctx EXCEPT ![p] = [u |-> u, c |-> None, m |-> -1]]
    /\ UNCHANGED <<store, now, readList, readCourse, readCompleted, userProgress, formData, academic, page>>
    /\ ui' = "none"
    /\ UNCHANGED <<identity, userGet, smartLearning, coursework, academicProgress, elsewhere, forms, console>>

\* get(userDbRef).then(...) -> loadEnrolledCourses(uid, userData.enrolledCourses
\* || [], userData.progress || {}), up to the get() of the first course
loadEnrolledCourses(p) ==
    /\ pc[p] = "dash_get_user"
    /\ LET list == enrolledCourses[ctx[p].u] IN
       IF ~userDataExists(ctx[p].u)
       THEN /\ ui' = "none"
            /\ Return(p)
       ELSE IF list = <<>>
       THEN /\ ui' = "You are not enrolled in any courses yet."
            /\ Return(p)
       ELSE /\ readList' = [readList EXCEPT ![p] = list]
            /\ userProgress' = [userProgress EXCEPT ![p] = progress[ctx[p].u]]
            /\ ctx' = [ctx EXCEPT ![p].c = list[1].courseId, ![p].m = 1]
            /\ pc' = [pc EXCEPT ![p] = "dash_get_course"]
            /\ UNCHANGED <<readCourse, readCompleted, formData, academic>>
            /\ ui' = "none"
    /\ UNCHANGED <<store, now, page>>
    /\ UNCHANGED <<identity, userGet, smartLearning, coursework, academicProgress, elsewhere, forms, console>>

\* one round of the for loop: await get(ref(db, 'courses/' + courseId)), the
\* card of the enrollment when the course exists (no card when the course is
\* gone or the get() is rejected: the catch is inside the loop), then the
\* get() of the next enrollment
dashGetCourse(p) ==
    /\ pc[p] = "dash_get_course"
    /\ LET i      == ctx[p].m
           course == courses[ctx[p].c]
           prog   == courseProg(userProgress[p], ctx[p].c, course.modules)
       IN /\ \/ /\ course.st = "live"
                /\ ui' = progressBar(progressPercent(Len(prog.completedModules),
                                                     totalModules(prog, course.modules)))
             \/ ui' = "none"
          /\ IF i < Len(readList[p])
             THEN /\ ctx' = [ctx EXCEPT ![p].c = readList[p][i + 1].courseId,
                                         ![p].m = i + 1]
                  /\ UNCHANGED <<pc, readList, readCourse, readCompleted, userProgress, formData, academic>>
             ELSE Return(p)
    /\ UNCHANGED <<store, now, page>>
    /\ UNCHANGED <<identity, userGet, smartLearning, coursework, academicProgress, elsewhere, forms, console>>

\* ------------------------------------------------------ markModuleComplete
\* mutant: the listener does not depend on a rendered (gated) course page
markModuleComplete_noPage(p, m) ==
    /\ pc[p] = "idle"
    /\ pc' = [pc EXCEPT ![p] = "mark_get"]
    /\ ctx' = [ctx EXCEPT ![p] = [u |-> "u1", c |-> "c1", m |-> m]]
    /\ UNCHANGED <<store, now, readList, readCourse, readCompleted, page, userProgress, formData, academic>>
    /\ ui' = "none"
    /\ UNCHANGED <<identity, userGet, smartLearning, coursework, academicProgress, elsewhere, forms, console>>

\* click on an enabled .mark-complete-btn of the course page
markModuleComplete(p, m) ==
    /\ pc[p] = "idle" /\ page[p] # NoPage
    /\ m \in page[p].buttons
    /\ pc' = [pc EXCEPT ![p] = "mark_get"]
    /\ ctx' = [ctx EXCEPT ![p] = [u |-> page[p].u, c |-> page[p].c, m |-> m]]
    /\ UNCHANGED <<store, now, readList, readCourse, readCompleted, page, userProgress, formData, academic>>
    /\ ui' = "none"
    /\ UNCHANGED <<identity, userGet, smartLearning, coursework, academicProgress, elsewhere, forms, console>>

\* mutant: the array written is built afresh instead of from the one read
markGet_fresh(p) ==
    /\ pc[p] = "mark_get"
    /\ LET completed == progress[ctx[p].u][ctx[p].c].completedModules IN
       IF ~includes(completed, ctx[p].m)
       THEN /\ readCompleted' = [readCompleted EXCEPT ![p] = <<ctx[p].m>>]
            /\ pc' = [pc EXCEPT ![p] = "mark_set"]
            /\ UNCHANGED <<ctx, readList, readCourse, userProgress, formData, academic>>
       ELSE Return(p)
    /\ UNCHANGED <<store, now, page>>
    /\ ui' = "none"
    /\ UNCHANGED <<identity, userGet, smartLearning, coursework, academicProgress, elsewhere, forms, console>>

\* await get(progRef), then completed.push(moduleId) unless included
markGet(p) ==
    /\ pc[p] = "mark_get"
    /\ LET completed == progress[ctx[p].u][ctx[p].c].completedModules IN
       IF ~includes(completed, ctx[p].m)
       THEN /\ readCompleted' = [readCompleted EXCEPT ![p] = Append(completed, ctx[p].m)]
            /\ pc' = [pc EXCEPT ![p] = "mark_set"]
            /\ UNCHANGED <<ctx, readList, readCourse, userProgress, formData, academic>>
       ELSE Return(p)
    /\ UNCHANGED <<store, now, page>>
    /\ ui' = "none"
    /\ UNCHANGED <<identity, userGet, smartLearning, coursework, academicProgress, elsewhere, forms, console>>

\* mutant: the id is appended to the array the store holds at the write
markSet_append(p) ==
    /\ pc[p] = "mark_set"
    /\ progress' = [progress EXCEPT ![ctx[p].u][ctx[p].c].completedModules =
                       IF includes(@, ctx[p].m) THEN @ ELSE Append(@, ctx[p].m)]
    /\ page' = [page EXCEPT ![p].buttons = @ \ {ctx[p].m}]
    /\ ui' = "Completed"
    /\ Return(p)
    /\ UNCHANGED <<enrolledCourses, courses, now>>
    /\ UNCHANGED <<identity, userGet, smartLearning, coursework, academicProgress, elsewhere, forms, console>>

\* await set(progRef, completed), then the button is disabled
markSet(p) ==
    /\ pc[p] = "mark_set"
    /\ progress' = [progress EXCEPT ![ctx[p].u][ctx[p].c].completedModules =
                       readCompleted[p]]
    /\ page' = [page EXCEPT ![p].buttons = @ \ {ctx[p].m}]
    /\ ui' = "Completed"
    /\ Return(p)
    /\ UNCHANGED <<enrolledCourses, courses, now>>
    /\ UNCHANGED <<identity, userGet, smartLearning, coursework, academicProgress, elsewhere, forms, console>>

\* ----------------------------------------------------------- the admin page
\* onAuthStateChanged -> loadUserData(user) on admin.html
loadAdminPage(p, u) ==
    /\ pc[p] = "idle" /\ page[p] = NoPage /\ ~adminView[p].on
    /\ pc' = [pc EXCEPT ![p] = "admin_get_user"]
    /\ ctx' = [ctx EXCEPT ![p] = [u |-> u, c |-> None, m |-> -1]]
    /\ UNCHANGED <<store, now, readList, readCourse, readCompleted, userProgress, formData, academic, page>>
    /\ ui' = "none"
    /\ UNCHANGED <<identity, userGet, smartLearning, coursework, academicProgress, elsewhere, forms, console>>

\* mutant: the role test admits 'admin' only
initializeAdminPageLogic_adminOnly(p) ==
    /\ pc[p] = "admin_get_user"
    /\ IF userDataExists(ctx[p].u) /\ role[ctx[p].u] = "admin"
       THEN /\ ui' = "admin: initialized"
            /\ adminView' = [adminView EXCEPT ![p] = displayUserDetails(allUsersData[p], None)]
            /\ pc' = [pc EXCEPT ![p] = "admin_get_users"]
            /\ UNCHANGED locals
       ELSE /\ ui' = "redirect: index.html"
            /\ UNCHANGED adminView
            /\ Return(p)
    /\ UNCHANGED <<store, now, page, identity, userGet, smartLearning, coursework, academicProgress, elsewhere, forms, allUsersData>>

\* get(userDbRef).then(...) on admin.html: the role test, then
\* initializeAdminPageLogic (which ends by calling loadAllUsersForAdmin) or
\* the redirect to index.html, also when the user has no record
initializeAdminPageLogic(p) ==
    /\ pc[p] = "admin_get_user"
    /\ IF canAccessAdminConsole(ctx[p].u)
       THEN /\ ui' = "admin: initialized"
            /\ adminView' = [adminView EXCEPT ![p] = displayUserDetails(allUsersData[p], None)]
            /\ pc' = [pc EXCEPT ![p] = "admin_get_users"]
            /\ UNCHANGED locals
       ELSE /\ ui' = "redirect: index.html"
            /\ UNCHANGED adminView
            /\ Return(p)
    /\ UNCHANGED <<store, now, page, identity, userGet, smartLearning, coursework, academicProgress, elsewhere, forms, allUsersData>>

\* await get(ref(db, 'users')) of loadAllUsersForAdmin: the cache is filled;
\* the get() of displayExistingTerms, issued by initializeAdminPageLogic as
\* well, is still pending
loadAllUsersForAdmin(p) ==
    /\ pc[p] = "admin_get_users"
    /\ allUsersData' = [allUsersData EXCEPT ![p] =
           [u \in Users |-> [present |-> userDataExists(u),
                             enrolledCourses |-> enrolledCourses[u],
                             feesBalance |-> feesBalance[u]]]]
    /\ pc' = [pc EXCEPT ![p] = "terms_get"]
    /\ ui' = "none"
    /\ UNCHANGED <<store, now, locals, page, identity, userGet, smartLearning, coursework, academicProgress, elsewhere, forms, adminView>>

\* mutant: the details list every enrollment of the user, whatever its status
displayUserDetailsForAdmin_all(p, u) ==
    /\ pc[p] = "idle" /\ adminView[p].on
    /\ adminView' = [adminView EXCEPT ![p] =
           [displayUserDetails(allUsersData[p], u) EXCEPT
               !.pending = IF u = None THEN <<>> ELSE allUsersData[p][u].enrolledCourses]]
    /\ forms' = [forms EXCEPT ![p] = feesInputs(@, allUsersData[p], u)]
    /\ ui' = "none"
    /\ UNCHANGED <<store, now, pc, locals, page, identity, userGet, smartLearning, coursework, academicProgress, elsewhere, allUsersData>>

\* change of adminUserSelect: displayUserDetailsForAdmin(uid)
displayUserDetailsForAdmin(p, u) ==
    /\ pc[p] = "idle" /\ adminView[p].on
    /\ adminView' = [adminView EXCEPT ![p] = displayUserDetails(allUsersData[p], u)]
    /\ forms' = [forms EXCEPT ![p] = feesInputs(@, allUsersData[p], u)]
    /\ ui' = "none"
    /\ UNCHANGED <<store, now, pc, locals, page, identity, userGet, smartLearning, coursework, academicProgress, elsewhere, allUsersData>>

\* click on the i-th .approve-enrollment-btn of the details:
\* approveCourseEnrollment(userId, b.dataset.courseId)
approveEnrollmentBtn(p, i) ==
    /\ pc[p] = "idle" /\ adminView[p].on
    /\ i \in DOMAIN adminView[p].pending
    /\ pc' = [pc EXCEPT ![p] = "approve_get"]
    /\ ctx' = [ctx EXCEPT ![p] = [u |-> adminView[p].u,
                                  c |-> adminView[p].pending[i].courseId, m |-> -1]]
    /\ UNCHANGED <<store, now, readList, readCourse, readCompleted, userProgress, formData, academic, page>>
    /\ ui' = "none"
    /\ UNCHANGED <<identity, userGet, smartLearning, coursework, academicProgress, elsewhere, forms, console>>

\* the admin navigates away from admin.html
leaveAdminPage(p) ==
    /\ pc[p] = "idle" /\ adminView[p].on
    /\ adminView' = [adminView EXCEPT ![p] = NoView]
    /\ allUsersData' = [allUsersData EXCEPT ![p] = NoUsersData]
    /\ termOptions' = [termOptions EXCEPT ![p] = 0]
    /\ forms' = [forms EXCEPT ![p] = NoForms]
    /\ ui' = "none"
    /\ UNCHANGED <<store, now, pc, locals, page, identity, userGet, smartLearning, coursework, academicProgress, academicTerms>>

\* ------------------------------------------------ the admin page's forms
\* what the admin types into the fields of a form
Names       == {"", "x"}
CreditTexts == {<<>>, <<"3">>, <<"x">>, <<"3", "x">>, <<"x", "3">>}
YearTexts   == {<<>>, <<"x">>, <<"2", "0">>}
Dates       == {NoDate, 1, 2}
AmountTexts == {<<>>, <<"x">>, <<"5">>, <<"5", "x">>}
Currencies  == {"", "USD"}

\* the fields of the create-course form / of the create-term form are empty
courseFormEmpty(f) ==
    /\ f.title = "" /\ f.code = "" /\ f.description = "" /\ f.credits = <<>>
    /\ f.modules = 0 /\ f.academicTermId = 0

termFormEmpty(f) ==
    /\ f.termName = "" /\ f.termYear = <<>> /\ f.termType = ""
    /\ f.termStartDate = NoDate /\ f.termEndDate = NoDate

\* createCourseForm.reset() / createTermForm.reset()
resetCourseForm(f) ==
    [f EXCEPT !.title = "", !.code = "", !.description = "", !.credits = <<>>,
              !.modules = 0, !.academicTermId = 0]

resetTermForm(f) ==
    [f EXCEPT !.termName = "", !.termYear = <<>>, !.termType = "",
              !.termStartDate = NoDate, !.termEndDate = NoDate]

\* the admin edits the create-course form (one form is worked on at a time)
typeCourseForm(p, title, code, description, credits, modules, term) ==
    /\ pc[p] = "idle" /\ adminView[p].on
    /\ termFormEmpty(forms[p])
    /\ term \in 0..termOptions[p]
    /\ forms' = [forms EXCEPT ![p] =
                    [@ EXCEPT !.title = title, !.code = code,
                              !.description = description, !.credits = credits,
                              !.modules = modules, !.academicTermId = term]]
    /\ ui' = "none"
    /\ UNCHANGED <<store, now, pc, locals, page, identity, userGet, smartLearning, coursework, academicProgress, elsewhere, console>>

\* the admin edits the create-term form
typeTermForm(p, name, year, type, startDate, endDate) ==
    /\ pc[p] = "idle" /\ adminView[p].on
    /\ courseFormEmpty(forms[p])
    /\ forms' = [forms EXCEPT ![p] =
                    [@ EXCEPT !.termName = name, !.termYear = year,
                              !.termType = type, !.termStartDate = startDate,
                              !.termEndDate = endDate]]
    /\ ui' = "none"
    /\ UNCHANGED <<store, now, pc, locals, page, identity, userGet, smartLearning, coursework, academicProgress, elsewhere, console>>

\* the admin edits the fees inputs
typeFees(p, amount, currency) ==
    /\ pc[p] = "idle" /\ adminView[p].on
    /\ courseFormEmpty(forms[p]) /\ termFormEmpty(forms[p])
    /\ forms' = [forms EXCEPT ![p] = [@ EXCEPT !.amount = amount,
                                               !.currency = currency]]
    /\ ui' = "none"
    /\ UNCHANGED <<store, now, pc, locals, page, identity, userGet, smartLearning, coursework, academicProgress, elsewhere, console>>

\* mutant: the credit hours are not tested
courseDataInvalid_noCredits(data) ==
    \/ data.title = "" \/ data.code = "" \/ data.description = ""
    \/ data.academicTermId = 0

\* the test of the createCourseForm submit handler
courseDataInvalid(data) ==
    \/ data.title = "" \/ data.code = "" \/ data.description = ""
    \/ isNaN(parseFloat(data.credits))
    \/ data.academicTermId = 0

\* createCourseForm submit handler, up to await set(newCourseRef, ...): the
\* course gets a fresh push() id
createCourseSubmit(p) ==
    /\ pc[p] = "idle" /\ adminView[p].on
    /\ IF courseDataInvalid(forms[p])
       THEN /\ ui' = "All fields including Academic Term are required."
            /\ UNCHANGED <<pc, locals>>
       ELSE /\ \E c \in Courses : courses[c].st = "never"
            /\ ctx' = [ctx EXCEPT ![p] =
                          [u |-> ctx[p].u, m |-> -1,
                           c |-> CHOOSE c \in Courses : courses[c].st = "never"]]
            /\ formData' = [formData EXCEPT ![p] = forms[p]]
            /\ pc' = [pc EXCEPT ![p] = "course_set"]
            /\ ui' = "none"
            /\ UNCHANGED <<readList, readCourse, readCompleted, userProgress, academic>>
    /\ UNCHANGED <<store, now, page, identity, userGet, smartLearning, coursework, academicProgress, elsewhere, forms, console>>

\* await set(newCourseRef, newCourseData), the message, the reset of the form
createCourseSet(p) ==
    /\ pc[p] = "course_set"
    /\ courses' = [courses EXCEPT ![ctx[p].c] =
                      [st |-> "live", modules |-> formData[p].modules]]
    /\ ui' = "Course created!"
    /\ forms' = [forms EXCEPT ![p] = resetCourseForm(@)]
    /\ assignments' = [assignments EXCEPT ![ctx[p].c] = <<>>]
    /\ exams' = [exams EXCEPT ![ctx[p].c] = <<>>]
    /\ Return(p)
    /\ UNCHANGED <<enrolledCourses, progress, now, page, identity, userGet, smartLearning, academicProgress, elsewhere, console>>

\* the first test of the createTermForm submit handler
termDataMissing(data) ==
    \/ data.termName = "" \/ isNaN(parseFloat(data.termYear))
    \/ data.termType = ""
    \/ data.termStartDate = NoDate \/ data.termEndDate = NoDate

\* new Date(termEndDate) < new Date(termStartDate)
termEndsBeforeStart(data) == data.termEndDate < data.termStartDate

\* createTermForm submit handler, up to await push(ref(db, 'academicTerms'), ...)
createTermSubmit(p) ==
    /\ pc[p] = "idle" /\ adminView[p].on
    /\ IF termDataMissing(forms[p])
       THEN /\ ui' = "All fields are required."
            /\ UNCHANGED <<pc, locals>>
       ELSE IF termEndsBeforeStart(forms[p])
       THEN /\ ui' = "End date cannot be before start date."
            /\ UNCHANGED <<pc, locals>>
       ELSE /\ Len(academicTerms) < MaxTerms
            /\ formData' = [formData EXCEPT ![p] = forms[p]]
            /\ pc' = [pc EXCEPT ![p] = "term_push"]
            /\ ui' = "none"
            /\ UNCHANGED <<ctx, readList, readCourse, readCompleted, userProgress, academic>>
    /\ UNCHANGED <<store, now, page, identity, userGet, smartLearning, coursework, academicProgress, elsewhere, forms, console>>

\* await push(ref(db, 'academicTerms'), termData), the message, the reset of
\* the form, then displayExistingTerms()
createTermPush(p) ==
    /\ pc[p] = "term_push"
    /\ academicTerms' = Append(academicTerms,
           [name |-> formData[p].termName,
            year |-> parseFloat(formData[p].termYear).val,
            type |-> formData[p].termType,
            startDate |-> formData[p].termStartDate,
            endDate |-> formData[p].termEndDate])
    /\ ui' = "Academic term created successfully!"
    /\ forms' = [forms EXCEPT ![p] = resetTermForm(@)]
    /\ pc' = [pc EXCEPT ![p] = "terms_get"]
    /\ formData' = [formData EXCEPT ![p] = NoForms]
    /\ UNCHANGED <<ctx, readList, readCourse, readCompleted, userProgress, academic>>
    /\ UNCHANGED <<store, now, page, identity, userGet, smartLearning, coursework, academicProgress, termOptions, console>>

\* await get(query(ref(db, 'academicTerms'), ...)) of displayExistingTerms:
\* the options of the term select are rebuilt, none is selected
displayExistingTerms(p) ==
    /\ pc[p] = "terms_get"
    /\ termOptions' = [termOptions EXCEPT ![p] = Len(academicTerms)]
    /\ forms' = [forms EXCEPT ![p] = [@ EXCEPT !.academicTermId = 0]]
    /\ ui' = "none"
    /\ Return(p)
    /\ UNCHANGED <<store, now, page, identity, userGet, smartLearning, coursework, academicProgress, academicTerms, console>>

\* adminUpdateFeesBtn click handler, up to await set(.../feesBalance, ...)
updateFeesClick(p) ==
    /\ pc[p] = "idle" /\ adminView[p].on
    /\ IF adminView[p].u = None
       THEN /\ ui' = "Select user."
            /\ UNCHANGED <<pc, locals>>
       ELSE IF isNaN(parseFloat(forms[p].amount))
       THEN /\ ui' = "Valid amount needed."
            /\ UNCHANGED <<pc, locals>>
       ELSE /\ ctx' = [ctx EXCEPT ![p] = [u |-> adminView[p].u, c |-> None, m |-> -1]]
            /\ formData' = [formData EXCEPT ![p] = forms[p]]
            /\ pc' = [pc EXCEPT ![p] = "fees_set"]
            /\ ui' = "none"
            /\ UNCHANGED <<readList, readCourse, readCompleted, userProgress, academic>>
    /\ UNCHANGED <<store, now, page, identity, userGet, smartLearning, coursework, academicProgress, elsewhere, forms, console>>

\* await set(ref(db, `users/${uid}/feesBalance`), {amount, currency}), the
\* message, the update of the cache
updateFeesSet(p) ==
    /\ pc[p] = "fees_set"
    /\ LET fees == [amount |-> parseFloat(formData[p].amount).val,
                    currency |-> IF formData[p].currency = "" THEN "MWK"
                                 ELSE formData[p].currency]
           uid == ctx[p].u
       IN /\ feesBalance' = [feesBalance EXCEPT ![uid] = fees]
          /\ allUsersData' = [allUsersData EXCEPT ![p] =
                 IF @[uid].present THEN [@ EXCEPT ![uid].feesBalance = fees] ELSE @]
    /\ ui' = "Fees updated!"
    /\ Return(p)
    /\ UNCHANGED <<store, now, page, role, email, elsewhere, forms, adminView>>
    /\ UNCHANGED <<coursework, academicProgress, userGet, smartLearning>>

\* --------------------------------------------------- the course-admin page
\* onAuthStateChanged -> loadUserData(user) on course-admin.html
loadCourseAdminPage(p, u) ==
    /\ pc[p] = "idle" /\ page[p] = NoPage /\ ~adminView[p].on
    /\ pc' = [pc EXCEPT ![p] = "cadmin_get_user"]
    /\ ctx' = [ctx EXCEPT ![p] = [u |-> u, c |-> None, m |-> -1]]
    /\ UNCHANGED <<store, now, readList, readCourse, readCompleted, userProgress, formData, academic, page>>
    /\ ui' = "none"
    /\ UNCHANGED <<identity, userGet, smartLearning, coursework, academicProgress, elsewhere, forms, console>>

\* mutant: the staff roles are admitted next to the operator address
initializeCourseAdminPage_staffToo(p) ==
    /\ pc[p] = "cadmin_get_user"
    /\ ui' = (IF ~userDataExists(ctx[p].u) THEN "none"
              ELSE IF email[ctx[p].u] = operatorEmail
                      \/ role[ctx[p].u] \in {"admin", "faculty"}
              THEN "course-admin: initialized" ELSE "redirect: index.html")
    /\ Return(p)
    /\ UNCHANGED <<store, now, page, identity, userGet, smartLearning, coursework, academicProgress, elsewhere, forms, console>>

\* get(userDbRef).then(...) on course-admin.html: inside if (userData), the
\* test of auth.currentUser.email, then initializeCourseAdminPage or the
\* redirect; without a user record the else branch only logs a warning
initializeCourseAdminPage(p) ==
    /\ pc[p] = "cadmin_get_user"
    /\ ui' = (IF ~userDataExists(ctx[p].u) THEN "none"
              ELSE IF email[ctx[p].u] = operatorEmail
              THEN "course-admin: initialized" ELSE "redirect: index.html")
    /\ Return(p)
    /\ UNCHANGED <<store, now, page, identity, userGet, smartLearning, coursework, academicProgress, elsewhere, forms, console>>

\* the positions of the two signup handlers at their calls of the identity
\* provider, of the file storage and of the store
SignupPcs == {"signup_create_user", "signup_upload", "signup_set",
              "portal_create_user", "portal_set"}

\* the positions of loadAcademicProgress at its get() calls
AcademicPcs == {"academic_get_list", "academic_get_assignments",
                "academic_get_exams"}

\* ------------------------------------------------------ store call failure
StorePcs == {"enroll_get_list", "enroll_get_course", "enroll_set_list",
             "enroll_set_progress", "approve_get", "approve_set",
             "page_get_user", "page_get_course", "page_get_progress",
             "learn_get_user", "dash_get_user", "mark_get", "mark_set",
             "admin_get_user", "admin_get_users", "cadmin_get_user",
             "course_set", "term_push", "terms_get", "fees_set"}
                \cup AcademicPcs \cup SignupPcs

\* ------------------------------------------------------------------ signup
\* An account of the identity provider exists for u when email[u] is set.
\* mutant: the signup form stores the role chosen in the form
userData_staff == [role |-> "faculty", feesBalance |-> signupFees]

\* userData of the signup form of the main script: role 'student', the
\* signup fees, enrolledCourses: [] and progress: {}
userData == [role |-> "student", feesBalance |-> signupFees]

\* the record of the signup form of the portal script: displayName, email
\* and role 'student'
portalUserData == [role |-> "student", feesBalance |-> NoFees]

\* submit of signupForm (main script): the terms must be accepted
signupSubmit(p, u, termsAccepted) ==
    /\ pc[p] = "idle" /\ page[p] = NoPage /\ ~adminView[p].on
    /\ IF ~termsAccepted
       THEN /\ ui' = "You must accept the Terms and Conditions."
            /\ UNCHANGED <<pc, locals>>
       ELSE /\ ui' = "none"
            /\ pc' = [pc EXCEPT ![p] = "signup_create_user"]
            /\ ctx' = [ctx EXCEPT ![p] = [u |-> u, c |-> None, m |-> -1]]
            /\ UNCHANGED <<readList, readCourse, readCompleted, userProgress, formData, academic>>
    /\ UNCHANGED <<store, now, page, identity, userGet, smartLearning, coursework,
                   academicProgress, elsewhere, forms, console>>

\* the identity provider creates the account and signs the user in, unless
\* the address is in use: onAuthStateChanged fires and loadUserData(user)
\* calls get(userDbRef)
createUserWithEmailAndPassword(p, next, inUse) ==
    IF email[ctx[p].u] # None
    THEN /\ ui' = inUse
         /\ Return(p)
         /\ UNCHANGED <<email, userGet>>
    ELSE /\ ui' = "none"
         /\ email' = [email EXCEPT ![ctx[p].u] = EmailOf(ctx[p].u)]
         /\ userGet' = [userGet EXCEPT ![p] = ctx[p].u]
         /\ pc' = [pc EXCEPT ![p] = next]
         /\ UNCHANGED locals

\* await createUserWithEmailAndPassword(auth, email, password), with or
\* without files to upload
signupCreateUser(p, files) ==
    /\ pc[p] = "signup_create_user"
    /\ createUserWithEmailAndPassword(p, IF files THEN "signup_upload" ELSE "signup_set",
                                      "Signup Error: email-already-in-use")
    /\ UNCHANGED <<store, now, page, role, feesBalance, smartLearning, coursework,
                   academicProgress, elsewhere, forms, console>>

\* await uploadFileToStorage(...) of the profile picture and the transcripts
signupUpload(p) ==
    /\ pc[p] = "signup_upload"
    /\ pc' = [pc EXCEPT ![p] = "signup_set"]
    /\ ui' = "none"
    /\ UNCHANGED locals
    /\ UNCHANGED <<store, now, page, identity, userGet, smartLearning, coursework,
                   academicProgress, elsewhere, forms, console>>

\* set(userDbRef, value): the whole record users/<uid> is replaced
setUserRecord(u, value) ==
    /\ role' = [role EXCEPT ![u] = value.role]
    /\ feesBalance' = [feesBalance EXCEPT ![u] = value.feesBalance]
    /\ enrolledCourses' = [enrolledCourses EXCEPT ![u] = <<>>]
    /\ progress' = [progress EXCEPT ![u] = NoUserProgress]

\* await set(userDbRef, userData), signupForm.reset()
signupSet(p) ==
    /\ pc[p] = "signup_set"
    /\ setUserRecord(ctx[p].u, userData)
    /\ ui' = "none"
    /\ Return(p)
    /\ UNCHANGED <<courses, now, page, email, userGet, smartLearning, coursework,
                   academicProgress, elsewhere, forms, console>>

\* submit of signupForm (portal script)
portalSignupSubmit(p, u) ==
    /\ pc[p] = "idle" /\ page[p] = NoPage /\ ~adminView[p].on
    /\ ui' = "none"
    /\ pc' = [pc EXCEPT ![p] = "portal_create_user"]
    /\ ctx' = [ctx EXCEPT ![p] = [u |-> u, c |-> None, m |-> -1]]
    /\ UNCHANGED <<readList, readCourse, readCompleted, userProgress, formData, academic>>
    /\ UNCHANGED <<store, now, page, identity, userGet, smartLearning, coursework,
                   academicProgress, elsewhere, forms, console>>

\* createUserWithEmailAndPassword(auth, email, password).then(...)
portalCreateUser(p) ==
    /\ pc[p] = "portal_create_user"
    /\ createUserWithEmailAndPassword(p, "portal_set",
                                      "console.error: email-already-in-use")
    /\ UNCHANGED <<store, now, page, role, feesBalance, smartLearning, coursework,
                   academicProgress, elsewhere, forms, console>>

\* set(userDbRef, {displayName, email, role: 'student'})
portalSet(p) ==
    /\ pc[p] = "portal_set"
    /\ setUserRecord(ctx[p].u, portalUserData)
    /\ ui' = "none"
    /\ Return(p)
    /\ UNCHANGED <<courses, now, page, email, userGet, smartLearning, coursework,
                   academicProgress, elsewhere, forms, console>>

\* get(userDbRef).then(...) of the loadUserData that onAuthStateChanged
\* called: the record is displayed, or it is missing
authStateGet(p) ==
    /\ userGet[p] # None
    /\ userGet' = [userGet EXCEPT ![p] = None]
    /\ ui' = IF userDataExists(userGet[p])
             THEN "Welcome"
             ELSE "loadUserData - userData is null or undefined"
    /\ UNCHANGED <<store, now, pc, locals, page, identity, smartLearning, coursework,
                   academicProgress, elsewhere, forms, console>>

\* the catch of that get()
authStateGetRejects(p) ==
    /\ userGet[p] # None
    /\ userGet' = [userGet EXCEPT ![p] = None]
    /\ ui' = "loadUserData - Firebase get() FAILED"
    /\ UNCHANGED <<store, now, pc, locals, page, identity, smartLearning, coursework,
                   academicProgress, elsewhere, forms, console>>

\* ------------------------------------------------- loadAcademicProgress
\* the figures after the catch block
NotAvailable == [coursesInProgress |-> <<"N", "/", "A">>,
                 assignmentsDue |-> <<"N", "/", "A">>,
                 upcomingExams |-> <<"N", "/", "A">>]

\* mutant: an entry dated exactly now is counted too
countAfter_orEqual(dates, t) == Cardinality({i \in DOMAIN dates : dates[i] >= t})

\* Object.values(assignments).forEach(a => { if (a.dueDate > now) count++ }),
\* and the same over the exams: the number of entries dated after now
countAfter(dates, t) == Cardinality({i \in DOMAIN dates : dates[i] > t})

\* the call loadAcademicProgress(user.uid) of the dashboard
loadAcademicProgress(p, u) ==
    /\ pc[p] = "idle"
    /\ page[p] = NoPage
    /\ pc' = [pc EXCEPT ![p] = "academic_get_list"]
    /\ ctx' = [ctx EXCEPT ![p] = [u |-> u, c |-> None, m |-> -1]]
    /\ ui' = "none"
    /\ UNCHANGED <<readList, readCourse, readCompleted, userProgress, formData, academic>>
    /\ UNCHANGED <<store, now, page, identity, userGet, smartLearning, coursework, academicProgress,
                   elsewhere, forms, console>>

\* the tail of the handler: the two counters are displayed
academicDisplay(p, counters) ==
    /\ academicProgress' = [academicProgress EXCEPT
           ![p].assignmentsDue = toText(counters.assignmentsDueCount),
           ![p].upcomingExams = toText(counters.upcomingExamsCount)]
    /\ Return(p)

\* await get(ref(db, `users/${userId}/enrolledCourses`)); the first figure is
\* displayed, Date.now() is read once, the loop starts on the list read
academicGetList(p) ==
    /\ pc[p] = "academic_get_list"
    /\ now < MaxClock
    /\ now' = DateNow
    /\ ui' = "none"
    /\ LET list == enrolledCourses[ctx[p].u]
           shown == [academicProgress[p] EXCEPT !.coursesInProgress = toText(Len(list))]
       IN IF list = <<>>
          THEN /\ academicProgress' = [academicProgress EXCEPT ![p] =
                      [shown EXCEPT !.assignmentsDue = toText(0),
                                    !.upcomingExams = toText(0)]]
               /\ Return(p)
          ELSE /\ academicProgress' = [academicProgress EXCEPT ![p] = shown]
               /\ readList' = [readList EXCEPT ![p] = list]
               /\ academic' = [academic EXCEPT ![p] = [NoAcademic EXCEPT !.now = DateNow]]
               /\ pc' = [pc EXCEPT ![p] = "academic_get_assignments"]
               /\ UNCHANGED <<ctx, readCourse, readCompleted, userProgress, formData>>
    /\ UNCHANGED <<store, page, identity, userGet, smartLearning, coursework, elsewhere, forms, console>>

\* await get(ref(db, `courses/${courseId}/assignments`)) for the Enrollment
\* the loop is at, the first of readList
academicGetAssignments(p) ==
    /\ pc[p] = "academic_get_assignments"
    /\ academic' = [academic EXCEPT ![p].assignmentsDueCount =
                       @ + countAfter(assignments[Head(readList[p]).courseId],
                                      academic[p].now)]
    /\ pc' = [pc EXCEPT ![p] = "academic_get_exams"]
    /\ ui' = "none"
    /\ UNCHANGED <<ctx, readList, readCourse, readCompleted, userProgress, formData>>
    /\ UNCHANGED <<store, now, page, identity, userGet, smartLearning, coursework, academicProgress,
                   elsewhere, forms, console>>

\* await get(ref(db, `courses/${courseId}/exams`)), then the next Enrollment
\* of the list or, after the last, the display of the counters
academicGetExams(p) ==
    /\ pc[p] = "academic_get_exams"
    /\ ui' = "none"
    /\ LET counters == [academic[p] EXCEPT !.upcomingExamsCount =
                           @ + countAfter(exams[Head(readList[p]).courseId],
                                          academic[p].now)]
       IN IF Tail(readList[p]) = <<>>
          THEN academicDisplay(p, counters)
          ELSE /\ academic' = [academic EXCEPT ![p] = counters]
               /\ readList' = [readList EXCEPT ![p] = Tail(@)]
               /\ pc' = [pc EXCEPT ![p] = "academic_get_assignments"]
               /\ UNCHANGED <<ctx, readCourse, readCompleted, userProgress, formData,
                              academicProgress>>
    /\ UNCHANGED <<store, now, page, identity, userGet, smartLearning, coursework, elsewhere, forms, console>>


\* the message of the catch block the rejected call lands in
catchMessage(at) ==
    CASE at \in {"enroll_get_list", "enroll_get_course", "enroll_set_list",
                 "enroll_set_progress"}        -> "Error enrolling"
      [] at \in {"approve_get", "approve_set"} -> "Error approving"
      [] at \in {"mark_get", "mark_set"}       -> "Error marking"
      [] at \in {"page_get_user", "learn_get_user", "dash_get_user",
                 "admin_get_user", "cadmin_get_user"}
                                               -> "Error loading user"
      [] at = "admin_get_users"                -> "Error loading users for admin"
      [] at \in {"course_set", "term_push", "fees_set"}
                                               -> "Error: the store call failed"
      [] at = "terms_get"                      -> "Error loading terms."
      [] at \in AcademicPcs                    -> "Error loading academic progress:"
      [] at \in {"signup_create_user", "signup_upload"}
                                               -> "Signup Error: the call failed"
      [] at = "signup_set"
             -> "Signup successful, but failed to save profile data: the call failed."
      [] at \in {"portal_create_user", "portal_set"}
                                               -> "console.error: the call failed"
      [] OTHER                                 -> "Error loading course details."

\* mutant: a rejected write of the Enrollment list is swallowed, the handler
\* goes on to its next store call
storeRejects_continues(p) ==
    /\ pc[p] \in StorePcs
    /\ ui' = catchMessage(pc[p])
    /\ IF pc[p] = "admin_get_users"
       THEN /\ pc' = [pc EXCEPT ![p] = "terms_get"]
            /\ UNCHANGED locals
       ELSE IF pc[p] = "enroll_set_list"
       THEN /\ pc' = [pc EXCEPT ![p] = "enroll_set_progress"]
            /\ UNCHANGED locals
       ELSE Return(p)
    /\ UNCHANGED <<store, now, page>>
    /\ UNCHANGED <<identity, userGet, smartLearning, coursework, elsewhere, allUsersData>>
    /\ IF pc[p] \in AcademicPcs
       THEN academicProgress' = [academicProgress EXCEPT ![p] = NotAvailable]
       ELSE UNCHANGED academicProgress
    /\ IF pc[p] \in {"approve_get", "approve_set"}
       THEN redisplay(p) ELSE UNCHANGED <<adminView, forms>>

\* the pending get() / set() of a handler is rejected: its catch block runs
\* (after the catch of loadAllUsersForAdmin the get() of displayExistingTerms
\* is still pending)
storeRejects(p) ==
    /\ pc[p] \in StorePcs
    /\ ui' = catchMessage(pc[p])
    /\ IF pc[p] = "admin_get_users"
       THEN /\ pc' = [pc EXCEPT ![p] = "terms_get"]
            /\ UNCHANGED locals
       ELSE Return(p)
    /\ UNCHANGED <<store, now, page>>
    /\ UNCHANGED <<identity, userGet, smartLearning, coursework, elsewhere, allUsersData>>
    /\ IF pc[p] \in AcademicPcs
       THEN academicProgress' = [academicProgress EXCEPT ![p] = NotAvailable]
       ELSE UNCHANGED academicProgress
    /\ IF pc[p] \in {"approve_get", "approve_set"}
       THEN redisplay(p) ELSE UNCHANGED <<adminView, forms>>

\* ------------------------------------------------------------------- Next
\* Scope of Spec: every handler, on one learner and one course.
OneUser   == {"u1"}
OneCourse == {"c1"}

Next ==
    \/ \E c \in OneCourse, n \in 0..MaxModules : createCourse(c, n)
    \/ \E c \in OneCourse : deleteCourse(c)
    \/ \E p \in Procs, u \in OneUser, c \in OneCourse : enrollInCourse(p, u, c)
    \/ \E p \in Procs : enrollGetList(p)
    \/ \E p \in Procs : enrollGetCourse(p)
    \/ \E p \in Procs : enrollSetList(p)
    \/ \E p \in Procs : enrollSetProgress(p)
    \/ \E p \in Procs, u \in OneUser, c \in OneCourse : approveCourseEnrollment(p, u, c)
    \/ \E p \in Procs : approveGet(p)
    \/ \E p \in Procs : approveSet(p)
    \/ \E p \in Procs, u \in OneUser, c \in OneCourse : loadUserData(p, u, c)
    \/ \E p \in Procs : loadCourseDetailsWithAccessCheck(p)
    \/ \E p \in Procs : pageGetCourse(p)
    \/ \E p \in Procs : pageGetProgress(p)
    \/ \E p \in Procs : leavePage(p)
    \/ \E p \in Procs, u \in OneUser, c \in OneCourse : loadLearningPage(p, u, c)
    \/ \E p \in Procs : initializeLearningPage(p)
    \/ \E p \in Procs, m \in 0..(MaxModules - 1) : markModuleComplete(p, m)
    \/ \E p \in Procs : markGet(p)
    \/ \E p \in Procs : markSet(p)
    \/ \E p \in Procs : storeRejects(p)

Spec == Init /\ [][Next]_vars

\* Scope of SpecEnrollment: the handlers that read and write Enrollment
\* lists, two users and two courses (u1 may hold both courses, u2 one).
EnrollmentPairs == {<<"u1", "c1">>, <<"u1", "c2">>, <<"u2", "c1">>}

NextEnrollment ==
    \/ \E c \in Courses : createCourse(c, MaxModules)
    \/ \E p \in Procs, uc \in EnrollmentPairs : enrollInCourse(p, uc[1], uc[2])
    \/ \E p \in Procs : enrollGetList(p)
    \/ \E p \in Procs : enrollGetCourse(p)
    \/ \E p \in Procs : enrollSetList(p)
    \/ \E p \in Procs : enrollSetProgress(p)
    \/ \E p \in Procs, uc \in EnrollmentPairs : approveCourseEnrollment(p, uc[1], uc[2])
    \/ \E p \in Procs : approveGet(p)
    \/ \E p \in Procs : approveSet(p)
    \/ \E p \in Procs : storeRejects(p)

SpecEnrollment == Init /\ [][NextEnrollment]_vars

\* Scope of SpecProgress: enrollment, approval, the course page, progress
\* tracking and the dashboard, on one learner and one course of the catalog.
NextProgress ==
    \/ \E c \in OneCourse, n \in 0..MaxModules : createCourse(c, n)
    \/ \E p \in Procs, u \in OneUser, c \in OneCourse : enrollInCourse(p, u, c)
    \/ \E p \in Procs : enrollGetList(p)
    \/ \E p \in Procs : enrollGetCourse(p)
    \/ \E p \in Procs : enrollSetList(p)
    \/ \E p \in Procs : enrollSetProgress(p)
    \/ \E p \in Procs, u \in OneUser, c \in OneCourse : approveCourseEnrollment(p, u, c)
    \/ \E p \in Procs : approveGet(p)
    \/ \E p \in Procs : approveSet(p)
    \/ \E p \in Procs, u \in OneUser, c \in OneCourse : loadUserData(p, u, c)
    \/ \E p \in Procs : loadCourseDetailsWithAccessCheck(p)
    \/ \E p \in Procs : pageGetCourse(p)
    \/ \E p \in Procs : pageGetProgress(p)
    \/ \E p \in Procs : leavePage(p)
    \/ \E p \in Procs, u \in OneUser : loadDashboard(p, u)
    \/ \E p \in Procs : loadEnrolledCourses(p)
    \/ \E p \in Procs : dashGetCourse(p)
    \/ \E p \in Procs, m \in 0..(MaxModules - 1) : markModuleComplete(p, m)
    \/ \E p \in Procs : markGet(p)
    \/ \E p \in Procs : markSet(p)
    \/ \E p \in Procs : storeRejects(p)

SpecProgress == Init /\ [][NextProgress]_vars

\* Scope of SpecAdmin: the admin page of a member of staff (u2, whose role
\* the operator has set to 'admin') in one tab and the enrollment requests of
\* a learner (u1) for two courses in another.
Learner == "u1"
Staff   == "u2"

\* the browser tab of the member of staff and the tab of the learner
AdminTab   == "p1"
LearnerTab == "p2"

InitAdmin ==
    /\ InitSessions
    /\ InitStore
    /\ role = [u \in Users |-> IF u = Staff THEN "admin" ELSE "student"]
    /\ email = [u \in Users |-> EmailOf(u)]
    /\ feesBalance = [u \in Users |-> signupFees]

NextAdmin ==
    \/ \E c \in Courses : createCourse(c, MaxModules)
    \/ \E c \in Courses : enrollInCourse(LearnerTab, Learner, c)
    \/ enrollGetList(LearnerTab)
    \/ enrollGetCourse(LearnerTab)
    \/ enrollSetList(LearnerTab)
    \/ enrollSetProgress(LearnerTab)
    \/ loadAdminPage(AdminTab, Staff)
    \/ initializeAdminPageLogic(AdminTab)
    \/ loadAllUsersForAdmin(AdminTab)
    \/ displayExistingTerms(AdminTab)
    \/ \E u \in Users : displayUserDetailsForAdmin(AdminTab, u)
    \/ \E i \in 1..Cardinality(Courses) : approveEnrollmentBtn(AdminTab, i)
    \/ approveGet(AdminTab)
    \/ approveSet(AdminTab)
    \/ leaveAdminPage(AdminTab)
    \/ \E p \in Procs : storeRejects(p)

SpecAdmin == InitAdmin /\ [][NextAdmin]_vars

\* Scope of SpecForms: the forms of the admin page of a member of staff
\* (create course, create academic term, update the fees of the learner), one
\* tab; the admin fills an empty form once, leaves at most one text field of
\* it empty, and uses the course and term forms before selecting a user.
AtMostOneEmpty == {t \in Names \X Names \X Names :
                      Cardinality({i \in 1..3 : t[i] = ""}) <= 1}

NextForms ==
    \/ loadAdminPage(AdminTab, Staff)
    \/ initializeAdminPageLogic(AdminTab)
    \/ loadAllUsersForAdmin(AdminTab)
    \/ displayExistingTerms(AdminTab)
    \/ /\ courseFormEmpty(forms[AdminTab]) /\ termFormEmpty(forms[AdminTab])
       /\ \E u \in {Learner, None} : displayUserDetailsForAdmin(AdminTab, u)
    \/ leaveAdminPage(AdminTab)
    \/ /\ forms[AdminTab] = NoForms
       /\ \E t \in AtMostOneEmpty, credits \in CreditTexts, term \in 0..MaxTerms :
             typeCourseForm(AdminTab, t[1], t[2], t[3], credits, MaxModules, term)
    \/ createCourseSubmit(AdminTab)
    \/ createCourseSet(AdminTab)
    \/ /\ forms[AdminTab] = NoForms
       /\ \E t \in AtMostOneEmpty, year \in YearTexts,
             startDate \in Dates, endDate \in Dates :
             typeTermForm(AdminTab, t[1], year, t[2], startDate, endDate)
    \/ createTermSubmit(AdminTab)
    \/ createTermPush(AdminTab)
    \/ \E amount \in AmountTexts, currency \in Currencies :
          typeFees(AdminTab, amount, currency)
    \/ updateFeesClick(AdminTab)
    \/ updateFeesSet(AdminTab)
    \/ storeRejects(AdminTab)

SpecForms == InitAdmin /\ [][NextForms]_vars

\* Scope of SpecGates: the page loads of one browser tab (admin.html,
\* course-admin.html, course.html, learning.html), over user records of every
\* shape the handlers can have left in the store.
OneProc == {"p1"}

\* userData.role: the signup value, the two values set by hand in the
\* database, or no role field
Roles == {"student", "faculty", "admin", None}

\* auth.currentUser.email: the operator's address, an address that differs
\* from it in the case of one letter, the address of the signup form
Emails == {operatorEmail, "Chipimizere@gmail.com", EmailOf(Learner)}

\* the Enrollment of course c as enrollInCourse wrote it at time 1, or as
\* approveCourseEnrollment rewrote it at time 2
storedEnrollment(c, status) ==
    IF status = "active"
    THEN [enrollmentData(c, 1) EXCEPT !.currentStatus = "active", !.lastAccessed = 2]
    ELSE enrollmentData(c, 1)

\* the enrolledCourses arrays with at most one Enrollment per course
StoredLists ==
    {<<>>}
    \cup {<<storedEnrollment(c, st)>> :
             c \in Courses, st \in {"pending_approval", "active"}}
    \cup {<<storedEnrollment(cd[1], st), storedEnrollment(cd[2], sd)>> :
             cd \in {x \in Courses \X Courses : x[1] # x[2]},
             st \in {"pending_approval", "active"},
             sd \in {"pending_approval", "active"}}

\* the Progress records of a user: of enrolled courses only, completed
\* modules of active Enrollments only
StoredProgress(list) ==
    {f \in [Courses -> {NoProgress,
                        [completedModules |-> <<>>, totalModules |-> MaxModules],
                        [completedModules |-> <<0>>, totalModules |-> MaxModules]}] :
        \A c \in Courses :
            /\ f[c] # NoProgress => \E i \in DOMAIN list : list[i].courseId = c
            /\ f[c] # NoProgress /\ f[c].completedModules # <<>>
                   => \E i \in DOMAIN list : /\ list[i].courseId = c
                                              /\ list[i].currentStatus = "active"}

InitGates ==
    /\ InitSessions
    /\ courses = [c \in Courses |-> [st |-> "live", modules |-> MaxModules]]
    /\ academicTerms = <<>>
    /\ assignments = [c \in Courses |-> <<>>]
    /\ exams = [c \in Courses |-> <<>>]
    /\ now = 2
    /\ enrolledCourses \in [Users -> StoredLists]
    /\ enrolledCourses[Staff] \in {<<>>, <<storedEnrollment("c1", "pending_approval")>>,
                                   <<storedEnrollment("c1", "active")>>}
    /\ progress \in [Users -> [Courses -> {NoProgress}]]
                        \cup {[u \in Users |-> IF u = Learner THEN f ELSE NoUserProgress] :
                                 f \in StoredProgress(enrolledCourses[Learner])}
    /\ role \in [Users -> Roles]
    /\ role[Staff] \in {"student", "admin"}
    /\ email \in [Users -> Emails]
    /\ email[Staff] = EmailOf(Learner)
    /\ feesBalance \in [Users -> {NoFees, signupFees}]
    /\ feesBalance[Staff] = NoFees

NextGates ==
    \/ \E p \in OneProc : loadAdminPage(p, Learner)
    \/ \E p \in OneProc : initializeAdminPageLogic(p)
    \/ \E p \in OneProc : loadAllUsersForAdmin(p)
    \/ \E p \in OneProc : displayExistingTerms(p)
    \/ \E p \in OneProc : leaveAdminPage(p)
    \/ \E p \in OneProc : loadCourseAdminPage(p, Learner)
    \/ \E p \in OneProc : initializeCourseAdminPage(p)
    \/ \E p \in OneProc : loadUserData(p, Learner, "c1")
    \/ \E p \in OneProc : loadCourseDetailsWithAccessCheck(p)
    \/ \E p \in OneProc : pageGetCourse(p)
    \/ \E p \in OneProc : pageGetProgress(p)
    \/ \E p \in OneProc : leavePage(p)
    \/ \E p \in OneProc : loadLearningPage(p, Learner, "c1")
    \/ \E p \in OneProc : initializeLearningPage(p)
    \/ \E p \in OneProc : storeRejects(p)

SpecGates == InitGates /\ [][NextGates]_vars

\* Scope of SpecAggregate: the dashboard of one learner in one session. No
\* handler of the program writes assignments or exams (a created course has
\* none), so the stored coursework is drawn by Init, with the Enrollment
\* list of the learner.
DueDates == {<<>>, <<2>>, <<3>>, <<4>>, <<2, 4>>, <<4, 4>>}
ExamDates == {<<>>, <<3>>, <<4>>}

InitAggregate ==
    /\ InitSessions
    /\ courses = [c \in Courses |-> [st |-> "live", modules |-> MaxModules]]
    /\ academicTerms = <<>>
    /\ assignments \in [Courses -> DueDates]
    /\ exams \in [Courses -> ExamDates]
    /\ now = 2
    /\ enrolledCourses \in [Users -> StoredLists]
    /\ enrolledCourses[Staff] = <<>>
    /\ progress = [u \in Users |-> NoUserProgress]
    /\ role = [u \in Users |-> "student"]
    /\ email = [u \in Users |-> EmailOf(u)]
    /\ feesBalance = [u \in Users |-> signupFees]

NextAggregate ==
    \/ \E p \in OneProc : loadAcademicProgress(p, Learner)
    \/ \E p \in OneProc : academicGetList(p)
    \/ \E p \in OneProc : academicGetAssignments(p)
    \/ \E p \in OneProc : academicGetExams(p)
    \/ \E p \in OneProc : storeRejects(p)

SpecAggregate == InitAggregate /\ [][NextAggregate]_vars


\* Scope of SpecSmart: the SmartLearning component alone, mounted over
\* what localStorage holds of an earlier visit to lesson a.
StoredLessonProgress ==
    {[k \in LessonKeys |-> IF k = "a" THEN e ELSE NotAttempted] :
        e \in {NotAttempted, graded(0), graded(100)}}

InitSmart ==
    /\ InitPages
    /\ InitStore
    /\ role = [u \in Users |-> "student"]
    /\ email = [u \in Users |-> EmailOf(u)]
    /\ feesBalance = [u \in Users |-> signupFees]
    /\ smartProgress \in StoredLessonProgress

NextSmart ==
    \/ fetchLessons
    \/ \E data \in LessonData : fetchResolves(data)
    \/ fetchRejects
    \/ handleGenerateQuiz
    \/ \E right \in {0, 2, 3} : handleAnswerChange(right)
    \/ gradeQuiz
    \/ clearQuiz
    \/ goNext
    \/ goPrev

SpecSmart == InitSmart /\ [][NextSmart]_vars

\* Scope of SpecPairing: the handlers that write Enrollment lists and
\* Progress records, for one learner and two courses, with two calls in
\* flight and store failures.
NextPairing ==
    \/ \E c \in Courses : createCourse(c, MaxModules)
    \/ \E p \in Procs, c \in Courses : enrollInCourse(p, Learner, c)
    \/ \E p \in Procs : enrollGetList(p)
    \/ \E p \in Procs : enrollGetCourse(p)
    \/ \E p \in Procs : enrollSetList(p)
    \/ \E p \in Procs : enrollSetProgress(p)
    \/ \E p \in Procs, c \in Courses : approveCourseEnrollment(p, Learner, c)
    \/ \E p \in Procs : approveGet(p)
    \/ \E p \in Procs : approveSet(p)
    \/ \E p \in Procs : storeRejects(p)

SpecPairing == Init /\ [][NextPairing]_vars

\* Scope of SpecSignup: nobody has an account; the two signup forms in one
\* tab, the identity callback, and in the other tab what a user who is
\* signed in may do next: request an Enrollment, open the admin page.
InitSignup ==
    /\ InitSessions
    /\ InitStore
    /\ role = [u \in Users |-> None]
    /\ email = [u \in Users |-> None]
    /\ feesBalance = [u \in Users |-> NoFees]

NextSignup ==
    \/ \E u \in Users, t \in BOOLEAN : signupSubmit(AdminTab, u, t)
    \/ \E f \in BOOLEAN : signupCreateUser(AdminTab, f)
    \/ signupUpload(AdminTab)
    \/ signupSet(AdminTab)
    \/ portalSignupSubmit(AdminTab, Staff)
    \/ portalCreateUser(AdminTab)
    \/ portalSet(AdminTab)
    \/ authStateGet(AdminTab)
    \/ authStateGetRejects(AdminTab)
    \/ createCourse("c1", MaxModules)
    \/ email[Learner] # None /\ enrollInCourse(LearnerTab, Learner, "c1")
    \/ enrollGetList(LearnerTab)
    \/ enrollGetCourse(LearnerTab)
    \/ enrollSetList(LearnerTab)
    \/ enrollSetProgress(LearnerTab)
    \/ \E u \in Users : email[u] # None /\ loadAdminPage(LearnerTab, u)
    \/ initializeAdminPageLogic(LearnerTab)
    \/ \E p \in Procs : storeRejects(p)

SpecSignup == InitSignup /\ [][NextSignup]_vars

\* ------------------------------------------------- vocabulary of the claims
\* positions of the Enrollment records of course c in a list
RecordsOf(list, c) == {i \in DOMAIN list : list[i].courseId = c}

\* the Enrollment records of course c in a list, in their order
EnrollmentOf(list, c) == SelectSeq(list, LAMBDA ec : ec.courseId = c)

\* status of the Enrollment of course c in a list, "absent" without one
StatusOf(list, c) ==
    IF RecordsOf(list, c) = {} THEN "absent"
    ELSE list[CHOOSE i \in RecordsOf(list, c) : TRUE].currentStatus

\* list `to` holds the Enrollment of course c of list `from` with the same
\* courseId, title and enrollmentDate
Keeps(from, to, c) ==
    \A i \in RecordsOf(from, c) :
        \E j \in DOMAIN to : /\ to[j].courseId = from[i].courseId
                              /\ to[j].title = from[i].title
                              /\ to[j].enrollmentDate = from[i].enrollmentDate

\* the ids of a completed-module array
IdsOf(seq) == {seq[i] : i \in DOMAIN seq}

\* no id occurs twice in a completed-module array
NoDuplicate(seq) == \A i, j \in DOMAIN seq : seq[i] = seq[j] => i = j

\* the completed-module array of a pair is well formed: ids of the course
\* (of the stored module count, of the course as long as it exists), each once
WellFormedCompleted(prog, course) ==
    /\ NoDuplicate(prog.completedModules)
    /\ prog.totalModules >= 0
           => IdsOf(prog.completedModules) \subseteq 0..(prog.totalModules - 1)
    /\ course.st = "live"
           => IdsOf(prog.completedModules) \subseteq 0..(course.modules - 1)

\* positions at which a handler holds a whole value it is about to write
ListWriters == {"enroll_set_list", "approve_set"}

\* p and q have both read the same field and neither has written it yet
Overlap(p, q) ==
    /\ p # q /\ ctx[p].u = ctx[q].u
    /\ \/ pc[p] \in ListWriters /\ pc[q] \in ListWriters
       \/ pc[p] = "mark_set" /\ pc[q] = "mark_set" /\ ctx[p].c = ctx[q].c

\* handler p completes the store call it waits for at position `at`
Took(p, at) == pc[p] = at /\ pc'[p] # at /\ ui' # catchMessage(at)

\* ------------------------------------------------------------------ claims
\* C1: in every reachable state, for every (user, course) pair the user's
\* enrollment list holds at most one Enrollment record with that courseId.
C1_AtMostOneEnrollment ==
    \A u \in Users, c \in Courses :
        Cardinality(RecordsOf(enrolledCourses[u], c)) <= 1

\* C1 witness: two overlapping enrollInCourse calls for the same pair have
\* both written the list.
C1_Witness ==
    \E p, q \in Procs :
        /\ p # q /\ ctx[p] = ctx[q]
        /\ pc[p] = "enroll_set_progress" /\ pc[q] = "enroll_set_progress"
        /\ Len(enrolledCourses[ctx[p].u]) = 1

\* C2 (as stated): once the stored currentStatus of a pair is 'active', no
\* later state has it 'pending_approval', under any interleaving of
\* enrollInCourse and approveCourseEnrollment calls.
C2_Original ==
    [][\A u \in Users, c \in Courses :
          StatusOf(enrolledCourses[u], c) = "active"
              => StatusOf(enrolledCourses'[u], c) # "pending_approval"]_vars

\* C2 (amended): a call writes back as 'active' every record it read as
\* 'active'; the stored status of a pair leaves 'active' only through the
\* whole-list write of a call whose own list does not hold it as 'active'
\* (it read the list before the approval was stored).
C2_NoCallRevertsWhatItRead ==
    [][/\ \A p \in Procs :
            /\ (Took(p, "enroll_get_list") /\ pc'[p] = "enroll_get_course")
                   => readList'[p] = enrolledCourses[ctx[p].u]
            /\ (Took(p, "enroll_get_course") /\ pc'[p] = "enroll_set_list")
                   => \A d \in Courses :
                          StatusOf(readList[p], d) = "active"
                              => StatusOf(readList'[p], d) = "active"
            /\ (Took(p, "approve_get") /\ pc'[p] = "approve_set")
                   => \A d \in Courses :
                          StatusOf(enrolledCourses[ctx[p].u], d) = "active"
                              => StatusOf(readList'[p], d) = "active"
       /\ \A u \in Users, c \in Courses :
            (/\ StatusOf(enrolledCourses[u], c) = "active"
             /\ StatusOf(enrolledCourses'[u], c) # "active")
                => \E p \in Procs :
                       /\ ctx[p].u = u
                       /\ Took(p, "enroll_set_list") \/ Took(p, "approve_set")
                       /\ enrolledCourses'[u] = readList[p]
                       /\ StatusOf(readList[p], c) # "active"]_vars

\* C2 witness: an enrollInCourse call has written a list that holds a
\* record it read as 'active'.
C2_Witness ==
    \E p \in Procs :
        /\ pc[p] = "enroll_set_progress"
        /\ enrolledCourses[ctx[p].u] = readList[p]
        /\ \E d \in Courses : StatusOf(readList[p], d) = "active"

\* C3: the course-content gate denies with NOT_ENROLLED when the snapshot has
\* no Enrollment for the course, denies with ENROLLMENT_NOT_ACTIVE when the
\* Enrollment has any status but 'active', and grants iff an Enrollment with
\* status exactly 'active' exists (both gates: course page, learning page).
C3_Gate ==
    [][\A p \in Procs :
          LET list   == enrolledCourses[ctx[p].u]
              st     == StatusOf(list, ctx[p].c)
              active == \E i \in DOMAIN list :
                            /\ list[i].courseId = ctx[p].c
                            /\ list[i].currentStatus = "active"
          IN /\ Took(p, "page_get_user") =>
                  /\ st = "absent" => (ui' = "NOT_ENROLLED" /\ pc'[p] = "idle")
                  /\ st \notin {"absent", "active"}
                         => (ui' = "ENROLLMENT_NOT_ACTIVE" /\ pc'[p] = "idle")
                  /\ (pc'[p] = "page_get_course" /\ ui' = "GRANTED") <=> active
             /\ Took(p, "learn_get_user") =>
                  /\ (ui' = "learning: content") <=> active
                  /\ (ui' = "learning: Access Denied") <=> ~active]_vars

\* C3 witness: the gate has granted a course page load.
C3_Witness ==
    \E p \in Procs :
        /\ pc[p] = "page_get_course" /\ ui = "GRANTED"
        /\ StatusOf(enrolledCourses[ctx[p].u], ctx[p].c) = "active"

\* C4: approveCourseEnrollment on a pending Enrollment sets that record to
\* 'active' with lastAccessed refreshed, keeps every other Enrollment of the
\* list it read as it is (courseId, status, title, enrollmentDate), and its
\* write touches nothing but that user's enrollment list.
C4_ApproveFrame ==
    [][\A p \in Procs :
          LET u    == ctx[p].u
              c    == ctx[p].c
              list == enrolledCourses[u]
          IN /\ (Took(p, "approve_get") /\ pc'[p] = "approve_set") =>
                  /\ Len(readList'[p]) = Len(list)
                  /\ \A j \in DOMAIN list :
                        IF list[j].courseId = c
                        THEN /\ readList'[p][j] =
                                    [list[j] EXCEPT !.currentStatus = "active",
                                                    !.lastAccessed = now']
                             /\ now' > list[j].lastAccessed
                        ELSE readList'[p][j] = list[j]
             /\ Took(p, "approve_set") =>
                  /\ enrolledCourses' = [enrolledCourses EXCEPT ![u] = readList[p]]
                  /\ StatusOf(enrolledCourses'[u], c) = "active"
                  /\ UNCHANGED <<progress, courses>>]_vars

\* C4 witness: an approval has been stored for a user who holds another
\* Enrollment as well.
C4_Witness ==
    /\ ui = "Enrollment approved"
    /\ \E u \in Users :
          /\ Len(enrolledCourses[u]) = 2
          /\ \E c \in Courses : StatusOf(enrolledCourses[u], c) = "active"

\* C5: approveCourseEnrollment on a pair without an Enrollment, or whose
\* Enrollment is not 'pending_approval' (a replay included), writes nothing,
\* leaves the list unchanged, creates no record and reports 'not found'.
C5_ApproveNotFound ==
    [][\A p \in Procs :
          LET list == enrolledCourses[ctx[p].u] IN
          (/\ Took(p, "approve_get")
           /\ ~\E i \in DOMAIN list :
                  /\ list[i].courseId = ctx[p].c
                  /\ list[i].currentStatus = "pending_approval")
              => /\ UNCHANGED <<enrolledCourses, progress, courses>>
                 /\ pc'[p] = "idle"
                 /\ ui' = "Could not find pending enrollment"]_vars

\* C5 witness: an approve replayed on an already active Enrollment has
\* reported 'not found'.
C5_Witness ==
    /\ ui = "Could not find pending enrollment"
    /\ StatusOf(enrolledCourses["u1"], "c1") = "active"

\* C6: enrollInCourse on a pair that already has an Enrollment creates no
\* record, writes neither the list nor the Progress record, and tells the
\* caller the status of the existing Enrollment.
C6_EnrollExisting ==
    [][\A p \in Procs :
          LET list == enrolledCourses[ctx[p].u] IN
          (Took(p, "enroll_get_list") /\ RecordsOf(list, ctx[p].c) # {})
              => /\ UNCHANGED <<enrolledCourses, progress, courses>>
                 /\ pc'[p] = "idle"
                 /\ StatusOf(list, ctx[p].c) = "pending_approval"
                        => ui' = "already: Enrollment Pending"
                 /\ StatusOf(list, ctx[p].c) = "active"
                        => ui' = "already: Enrolled"]_vars

\* C6 witness: a request on an active Enrollment has been answered.
C6_Witness ==
    /\ ui = "already: Enrolled"
    /\ StatusOf(enrolledCourses["u1"], "c1") = "active"

\* C7: enrollInCourse on a pair without an Enrollment, for a course that
\* exists, appends exactly one Enrollment with status 'pending_approval' to
\* the list it read, and creates the Progress record of the pair with an
\* empty completed-module set and totalModules equal to the module count of
\* the course as read by the request (0 for a course without modules).
C7_EnrollCreates ==
    [][\A p \in Procs :
          LET u == ctx[p].u
              c == ctx[p].c
          IN /\ (Took(p, "enroll_get_list") /\ pc'[p] = "enroll_get_course")
                    => readList'[p] = enrolledCourses[u]
             /\ (Took(p, "enroll_get_course") /\ pc'[p] = "enroll_set_list")
                    => /\ courses[c].st = "live"
                       /\ readCourse'[p] = courses[c].modules
                       /\ RecordsOf(readList[p], c) = {}
                       /\ Len(readList'[p]) = Len(readList[p]) + 1
                       /\ SubSeq(readList'[p], 1, Len(readList[p])) = readList[p]
                       /\ LET e == readList'[p][Len(readList'[p])] IN
                          /\ e.courseId = c
                          /\ e.currentStatus = "pending_approval"
                          /\ e.title = TitleOf(c)
                          /\ e.enrollmentDate = now' /\ e.lastAccessed = now'
             /\ Took(p, "enroll_set_list")
                    => /\ enrolledCourses'[u] = readList[p]
                       /\ Cardinality(RecordsOf(enrolledCourses'[u], c)) = 1
                       /\ StatusOf(enrolledCourses'[u], c) = "pending_approval"
                       /\ UNCHANGED <<progress, courses>>
             /\ Took(p, "enroll_set_progress")
                    => /\ progress'[u][c].completedModules = <<>>
                       /\ progress'[u][c].totalModules = readCourse[p]
                       /\ readCourse[p] \in 0..MaxModules
                       /\ courses[c].st = "live"
                              => progress'[u][c].totalModules = courses[c].modules
                       /\ UNCHANGED <<enrolledCourses, courses>>]_vars

\* C7 witness: a request for a course without modules has stored the pending
\* Enrollment and the empty Progress record with totalModules 0.
C7_Witness ==
    /\ courses["c1"] = [st |-> "live", modules |-> 0]
    /\ StatusOf(enrolledCourses["u1"], "c1") = "pending_approval"
    /\ progress["u1"]["c1"] = [completedModules |-> <<>>, totalModules |-> 0]

\* C8: markModuleComplete is idempotent: after an application has stored the
\* id, the stored set holds it, and a further application with the same id
\* finds it and returns without any store write.
C8_MarkIdempotent ==
    [][\A p \in Procs :
          LET u == ctx[p].u
              c == ctx[p].c
              m == ctx[p].m
          IN /\ Took(p, "mark_set")
                    => /\ m \in IdsOf(progress'[u][c].completedModules)
                       /\ Cardinality({i \in DOMAIN progress'[u][c].completedModules :
                                         progress'[u][c].completedModules[i] = m}) = 1
             /\ (Took(p, "mark_get") /\ m \in IdsOf(progress[u][c].completedModules))
                    => /\ pc'[p] = "idle"
                       /\ UNCHANGED <<enrolledCourses, progress, courses>>]_vars

\* C8 witness: a second application is in flight for an id that is stored.
C8_Witness ==
    \E p \in Procs :
        /\ pc[p] = "mark_get"
        /\ Len(progress[ctx[p].u][ctx[p].c].completedModules) = 2
        /\ ctx[p].m \in IdsOf(progress[ctx[p].u][ctx[p].c].completedModules)

\* C9 (as stated): the stored completed-module set never loses an id, under
\* any interleaving of markModuleComplete and enrollInCourse calls.
C9_Original ==
    [][\A u \in Users, c \in Courses :
          IdsOf(progress[u][c].completedModules)
              \subseteq IdsOf(progress'[u][c].completedModules)]_vars

\* C9 (amended): markModuleComplete writes the array it read with the new id
\* appended, so it removes no id it read; a stored id disappears only through
\* the whole-array write of a markModuleComplete call that read the array
\* before the id was stored, or through the Progress write of an
\* enrollInCourse call, which stores an empty set.
C9_NoCallRemovesWhatItRead ==
    [][/\ \A p \in Procs :
            /\ (Took(p, "mark_get") /\ pc'[p] = "mark_set")
                   => readCompleted'[p] =
                          Append(progress[ctx[p].u][ctx[p].c].completedModules, ctx[p].m)
            /\ Took(p, "mark_set")
                   => progress'[ctx[p].u][ctx[p].c].completedModules = readCompleted[p]
       /\ \A u \in Users, c \in Courses :
            LET lost == IdsOf(progress[u][c].completedModules)
                            \ IdsOf(progress'[u][c].completedModules)
            IN lost # {} =>
                 \E p \in Procs :
                     /\ ctx[p].u = u /\ ctx[p].c = c
                     /\ \/ Took(p, "mark_set") /\ lost \cap IdsOf(readCompleted[p]) = {}
                        \/ Took(p, "enroll_set_progress")]_vars

\* C9 witness: a markModuleComplete call has stored its id after an id that
\* was already there.
C9_Witness ==
    /\ ui = "Completed"
    /\ Len(progress["u1"]["c1"].completedModules) = 2

\* C10 (as stated): a non-empty completed-module set exists only for pairs
\* whose Enrollment is 'active'.
C10_Original ==
    \A u \in Users, c \in Courses :
        progress[u][c].completedModules # <<>>
            => StatusOf(enrolledCourses[u], c) = "active"

\* C10 (amended): markModuleComplete is only started from a rendered course
\* page of the pair, and a course page is only rendered by a load whose gate
\* read an 'active' Enrollment of the pair; the handler does not read the
\* Enrollment again, so the store need not hold it as 'active' at the write.
C10_MarkOnlyBehindGate ==
    [][\A p \in Procs :
          /\ (pc[p] # "mark_get" /\ pc'[p] = "mark_get")
                 => /\ pc[p] = "idle" /\ page[p] # NoPage
                    /\ ctx'[p].u = page[p].u /\ ctx'[p].c = page[p].c
          /\ pc'[p] = "mark_set" => (pc[p] \in {"mark_get", "mark_set"} /\ ctx'[p] = ctx[p])
          /\ (page[p] = NoPage /\ page'[p] # NoPage)
                 => /\ pc[p] = "page_get_progress"
                    /\ page'[p].u = ctx[p].u /\ page'[p].c = ctx[p].c
          /\ (page[p] # NoPage /\ page'[p] # NoPage)
                 => (page'[p].u = page[p].u /\ page'[p].c = page[p].c)
          /\ (pc[p] # "page_get_progress" /\ pc'[p] = "page_get_progress")
                 => (pc[p] = "page_get_course" /\ ctx'[p] = ctx[p])
          /\ (pc[p] # "page_get_course" /\ pc'[p] = "page_get_course")
                 => /\ pc[p] = "page_get_user" /\ ctx'[p] = ctx[p]
                    /\ StatusOf(enrolledCourses[ctx[p].u], ctx[p].c) = "active"]_vars

\* C10 witness: a markModuleComplete write is pending for a pair whose stored
\* Enrollment is no longer 'active'.
C10_Witness ==
    \E p \in Procs :
        /\ pc[p] = "mark_set"
        /\ page[p].u = ctx[p].u /\ page[p].c = ctx[p].c
        /\ StatusOf(enrolledCourses[ctx[p].u], ctx[p].c) = "pending_approval"

\* C11: the completion percentage a dashboard card shows is within [0,100]
\* for every Progress snapshot and course the dashboard can read, and is 0
\* when the total module count (stored or of the course) is 0.
C11_PercentInRange ==
    [][\A p \in Procs :
          LET c    == ctx[p].c
              prog == userProgress[p][c]
          IN (pc[p] = "dash_get_course" /\ ctx'[p] # ctx[p] /\ ui' # "none")
                 => /\ \E k \in 0..100 : ui' = progressBar(k)
                    /\ Len(prog.completedModules) <= courses[c].modules
                    /\ (prog.totalModules = 0 \/ courses[c].modules = 0)
                           => ui' = progressBar(0)]_vars

\* C11 witness: a card shows 100% for a course all of whose modules are
\* completed.
C11_Witness ==
    /\ ui = progressBar(100)
    /\ Len(progress["u1"]["c1"].completedModules) = MaxModules

\* C12: the completed-module set of a pair is a subset of the course's module
\* ids without a duplicate, is empty right after the enrollment request that
\* created the Progress record, and is changed by no operation other than
\* markModuleComplete.
C12_CompletedSet ==
    [][/\ \A u \in Users, c \in Courses :
            /\ WellFormedCompleted(progress'[u][c], courses'[c])
            /\ progress'[u][c].completedModules # progress[u][c].completedModules
                   => \E p \in Procs : /\ ctx[p].u = u /\ ctx[p].c = c
                                       /\ Took(p, "mark_set")
       /\ \A p \in Procs :
            Took(p, "enroll_set_progress")
                => progress'[ctx[p].u][ctx[p].c].completedModules = <<>>]_vars

\* C13 (as stated): every mutation of an enrollment list or a completed-module
\* set writes the whole value the call holds, without a version check and
\* without an error; when two calls on the same field overlap, the change of
\* the one that writes first is absent from the value of the one that writes
\* last, which is the final value.
C13_Original ==
    [][\A p \in Procs :
          LET u == ctx[p].u
              c == ctx[p].c
          IN /\ Took(p, "enroll_set_list")
                 => /\ enrolledCourses'[u] = readList[p]
                    /\ ui' = "Successfully enrolled: Enrollment Pending"
             /\ Took(p, "approve_set")
                 => /\ enrolledCourses'[u] = readList[p]
                    /\ ui' = "Enrollment approved"
             /\ Took(p, "mark_set")
                 => /\ progress'[u][c].completedModules = readCompleted[p]
                    /\ ui' = "Completed"
             /\ \A q \in Procs :
                  (Overlap(p, q) /\ Took(p, pc[p]))
                     => /\ readList'[q] = readList[q]
                        /\ readCompleted'[q] = readCompleted[q]
                        /\ pc[p] \in ListWriters
                             => \A i \in RecordsOf(readList[p], c) :
                                   \A j \in DOMAIN readList[q] :
                                       readList[q][j] # readList[p][i]
                        /\ pc[p] = "mark_set"
                             => ctx[p].m \notin IdsOf(readCompleted[q])]_vars

\* C13 (amended): as stated, except that the final value is the value the
\* last writer read with its own change applied, whatever the first writer
\* stored: an id the first writer added is in the final value exactly when the
\* last writer's own value holds it (both calls mark the same module, or the
\* last writer read the id from the store), and a record the first writer
\* stored is in it only when the last writer made the same record itself.
C13_LastWriteWins ==
    [][\A p \in Procs :
          LET u == ctx[p].u
              c == ctx[p].c
          IN /\ Took(p, "enroll_set_list")
                 => /\ enrolledCourses'[u] = readList[p]
                    /\ ui' = "Successfully enrolled: Enrollment Pending"
             /\ Took(p, "approve_set")
                 => /\ enrolledCourses'[u] = readList[p]
                    /\ ui' = "Enrollment approved"
             /\ Took(p, "mark_set")
                 => /\ progress'[u][c].completedModules = readCompleted[p]
                    /\ ui' = "Completed"
             /\ \A q \in Procs :
                  (Overlap(p, q) /\ Took(p, pc[p]))
                     => /\ readList'[q] = readList[q]
                        /\ readCompleted'[q] = readCompleted[q]
                        /\ pc[p] \in ListWriters
                             => \A i \in RecordsOf(readList[p], c) :
                                   \A j \in DOMAIN readList[q] :
                                       readList[q][j] = readList[p][i]
                                           => (ctx[q].c = c /\ pc[q] = pc[p])
                        /\ (pc[p] = "mark_set"
                              /\ ctx[p].m \in IdsOf(readCompleted[q]))
                             => \/ ctx[q].m = ctx[p].m
                                \/ ctx[p].m \in IdsOf(SubSeq(readCompleted[q], 1,
                                                     Len(readCompleted[q]) - 1))]_vars

\* C13 witness: the last of two overlapping markModuleComplete calls has
\* written, and the module the first one stored is gone although a course
\* page shows it as completed.
C13_Witness ==
    /\ ui = "Completed"
    /\ progress["u1"]["c1"].completedModules = <<1>>
    /\ \E p \in Procs : page[p].c = "c1" /\ 0 \notin page[p].buttons

\* C14: when two approveCourseEnrollment calls for the same pair overlap, each
\* write stores the whole list of its call (the last one determines the
\* stored list), both calls report the approval, and the Enrollment of the
\* pair is 'active' and unique after the first write and in the list the
\* second call is about to write.
C14_OverlappingApprovals ==
    [][\A p \in Procs :
          LET u == ctx[p].u
              c == ctx[p].c
          IN Took(p, "approve_set")
                 => /\ enrolledCourses'[u] = readList[p]
                    /\ ui' = "Enrollment approved"
                    /\ StatusOf(enrolledCourses'[u], c) = "active"
                    /\ Cardinality(RecordsOf(enrolledCourses'[u], c)) = 1
                    /\ \A q \in Procs :
                         (q # p /\ ctx[q] = ctx[p] /\ pc[q] = "approve_set")
                            => /\ pc'[q] = "approve_set"
                               /\ readList'[q] = readList[q]
                               /\ StatusOf(readList[q], c) = "active"
                               /\ Cardinality(RecordsOf(readList[q], c)) = 1]_vars

\* C14 witness: the first of two overlapping approvals of a pair is stored and
\* the second one is about to write its own list.
C14_Witness ==
    \E q \in Procs :
        /\ pc[q] = "approve_set" /\ ui = "Enrollment approved"
        /\ StatusOf(enrolledCourses[ctx[q].u], ctx[q].c) = "active"
        /\ enrolledCourses[ctx[q].u] # readList[q]

\* C15 (as stated): once the store holds an Enrollment
\* for a pair, every later state holds one for the pair, with the same
\* courseId, title and enrollmentDate.
C15_Original ==
    [][\A u \in Users, c \in Courses :
          Keeps(enrolledCourses[u], enrolledCourses'[u], c)]_vars

\* C15 (amended): no call removes an Enrollment it read or changes its
\* courseId, title or enrollmentDate: the list a call writes keeps every
\* record the call read.  A stored Enrollment disappears, or is replaced by
\* one with another enrollmentDate, only through the whole-list write of a
\* call that read the list before the Enrollment was stored.
C15_NoCallRemovesWhatItRead ==
    [][/\ \A p \in Procs, d \in Courses :
            /\ (Took(p, "enroll_get_list") /\ pc'[p] = "enroll_get_course")
                   => readList'[p] = enrolledCourses[ctx[p].u]
            /\ (Took(p, "enroll_get_course") /\ pc'[p] = "enroll_set_list")
                   => Keeps(readList[p], readList'[p], d)
            /\ (Took(p, "approve_get") /\ pc'[p] = "approve_set")
                   => /\ Keeps(enrolledCourses[ctx[p].u], readList'[p], d)
                      /\ Len(readList'[p]) = Len(enrolledCourses[ctx[p].u])
       /\ \A u \in Users, c \in Courses :
            ~Keeps(enrolledCourses[u], enrolledCourses'[u], c)
                => \E p \in Procs :
                       /\ ctx[p].u = u
                       /\ Took(p, "enroll_set_list") \/ Took(p, "approve_set")
                       /\ enrolledCourses'[u] = readList[p]
                       /\ ~Keeps(enrolledCourses[u], readList[p], c)]_vars

\* C15 witness: an approval has written back, next to the record it made
\* active, an Enrollment of another course as it read it.
C15_Witness ==
    /\ ui = "Enrollment approved"
    /\ \E u \in Users :
          /\ StatusOf(enrolledCourses[u], "c1") = "pending_approval"
          /\ StatusOf(enrolledCourses[u], "c2") = "active"

\* C16: the load of admin.html initialises the admin console if and only if
\* the stored role of the signed-in user is 'admin' or 'faculty'; with any
\* other role, and without a stored record, the user is redirected to the
\* index page, the admin page logic is not run and nothing is loaded; the
\* console is opened and the users are loaded by no other step.
C16_AdminConsoleGate ==
    [][\A p \in Procs :
          /\ Took(p, "admin_get_user") =>
                LET u == ctx[p].u IN
                /\ (ui' = "admin: initialized") <=> (role[u] \in {"admin", "faculty"})
                /\ ui' = "admin: initialized"
                       => /\ pc'[p] = "admin_get_users"
                          /\ adminView'[p].on
                /\ ui' # "admin: initialized"
                       => /\ ui' = "redirect: index.html"
                          /\ pc'[p] = "idle"
                          /\ ~adminView'[p].on
                          /\ allUsersData' = allUsersData
                /\ UNCHANGED <<store, identity>>
          /\ (~adminView[p].on /\ adminView'[p].on) => Took(p, "admin_get_user")
          /\ (pc[p] # "admin_get_users" /\ pc'[p] = "admin_get_users")
                 => Took(p, "admin_get_user")
      ]_vars

\* C16 witness: a 'faculty' user has loaded admin.html and the console is
\* initialised
C16_Witness ==
    \E p \in Procs : /\ ui = "admin: initialized"
                     /\ pc[p] = "admin_get_users"
                     /\ role[ctx[p].u] = "faculty"
                     /\ adminView[p].on

\* C17 as stated: the load of course-admin.html initialises the maintenance
\* view if and only if the email of the signed-in identity is the operator
\* address, whatever the role; an 'admin' or 'faculty' user with another
\* email is redirected to the index page.
C17_Original ==
    [][\A p \in Procs :
          Took(p, "cadmin_get_user") =>
              LET u == ctx[p].u IN
              /\ (ui' = "course-admin: initialized") <=> (email[u] = operatorEmail)
              /\ (role[u] \in {"admin", "faculty"} /\ email[u] # operatorEmail)
                     => ui' = "redirect: index.html"
      ]_vars

\* C17 (amended): the load of course-admin.html initialises the maintenance
\* view if and only if the signed-in user has a stored record and the email
\* of the identity is exactly the operator address; the role plays no part:
\* with a stored record and any other email the user is redirected to the
\* index page, whatever the role; without a stored record the view is not
\* initialised and nobody is redirected. The step changes nothing else.
C17_OperatorOnly ==
    [][\A p \in Procs :
          Took(p, "cadmin_get_user") =>
              LET u == ctx[p].u IN
              /\ (ui' = "course-admin: initialized")
                     <=> (userDataExists(u) /\ email[u] = operatorEmail)
              /\ (userDataExists(u) /\ email[u] # operatorEmail)
                     => ui' = "redirect: index.html"
              /\ ~userDataExists(u) => ui' = "none"
              /\ pc'[p] = "idle"
              /\ UNCHANGED <<store, identity, console, page>>
      ]_vars

\* C17 witness: the operator, a user of role 'student', has loaded
\* course-admin.html and the maintenance view is initialised
C17_Witness ==
    /\ ui = "course-admin: initialized"
    /\ email[Learner] = operatorEmail
    /\ role[Learner] = "student"

C19_ViewRereadsAfterApproval ==
    [][\A p \in Procs :
          (adminView[p].on /\ Took(p, "approve_set")) =>
              LET u == ctx[p].u
                  c == ctx[p].c
                  shown == adminView'[p].pending
                  stored == enrolledCourses'[u]
              IN /\ adminView'[p].u = u
                 /\ \A i \in DOMAIN shown :
                       /\ shown[i].courseId # c
                       /\ \E k \in DOMAIN stored : stored[k] = shown[i]
                 /\ \A k \in DOMAIN stored :
                       stored[k].currentStatus = "pending_approval"
                           => \E i \in DOMAIN shown : shown[i] = stored[k]
      ]_vars

\* C20: the decision of the course-content gate (course.html and
\* learning.html) is determined by the user's Enrollment records of the
\* course alone: access is granted exactly when the user's list holds a
\* record of the course and its status is 'active'; any user whose records of
\* the course are the same receives the same decision from the gate, whatever
\* the role, the fees balance, the Progress records and the other Enrollments
\* of the two users; evaluating the gate changes neither the store nor the
\* page, the identity, the admin console or the values a handler has read.
C20_GateIsPure ==
    [][\A p \in Procs :
          (Took(p, "page_get_user") \/ Took(p, "learn_get_user")) =>
              LET u == ctx[p].u
                  c == ctx[p].c
                  mine == EnrollmentOf(enrolledCourses[u], c)
                  granted == IF pc[p] = "page_get_user"
                             THEN pc'[p] = "page_get_course" /\ ui' = "GRANTED"
                             ELSE ui' = "learning: content"
                  denied == /\ pc'[p] = "idle"
                            /\ ui' \in {"none", "NOT_ENROLLED", "ENROLLMENT_NOT_ACTIVE",
                                        "learning: Access Denied"}
              IN /\ granted <=> (mine # <<>> /\ mine[1].currentStatus = "active")
                 /\ ~granted <=> denied
                 /\ \A v \in Users :
                       EnrollmentOf(enrolledCourses[v], c) = mine
                           => /\ canAccessCourseContent(enrolledCourses[v], c).granted = granted
                              /\ learningAccess(enrolledCourses[v], c) = granted
                 /\ UNCHANGED <<store, identity, console, page, now>>
                 /\ UNCHANGED <<readList, readCourse, readCompleted, userProgress>>
      ]_vars

\* C20 witness: a user of role 'admin' without fees balance whose Enrollment
\* of c1 is pending has loaded course.html and was denied, while another
\* user's list holds the same record
C20_Witness ==
    /\ ui = "ENROLLMENT_NOT_ACTIVE"
    /\ role[Learner] = "admin"
    /\ feesBalance[Learner] = NoFees
    /\ role[Staff] = "student"
    /\ \E i \in DOMAIN enrolledCourses[Learner] :
          /\ enrolledCourses[Learner][i].courseId = "c1"
          /\ enrolledCourses[Staff] = <<enrolledCourses[Learner][i]>>
    /\ Len(enrolledCourses[Learner]) = 2

\* a text that does not begin with a number
NotNumeric(text) == text = <<>> \/ text[1] \notin {Digits[d] : d \in DOMAIN Digits}

\* the messages of the local validation of the three forms
ValidationMessages ==
    {"All fields including Academic Term are required.",
     "All fields are required.", "End date cannot be before start date.",
     "Select user.", "Valid amount needed."}

OperationPcs == {"enroll_get_list", "enroll_get_course", "enroll_set_list",
                 "enroll_set_progress", "approve_get", "approve_set",
                 "mark_get", "mark_set"}

\* the store call handler p waits for is rejected
Rejected(p) == pc[p] \in OperationPcs /\ pc'[p] # pc[p] /\ ui' = catchMessage(pc[p])

\* C22 as stated: when a store call of enrollInCourse, approveCourseEnrollment
\* or markModuleComplete fails, a message is reported, no further store call
\* is issued, and the store holds no change from that operation (the
\* Enrollment the call has pushed is not in the store).
C22_Original ==
    [][\A p \in Procs :
          Rejected(p) =>
              /\ ui' \in {"Error enrolling", "Error approving", "Error marking"}
              /\ pc'[p] = "idle"
              /\ UNCHANGED store
              /\ pc[p] = "enroll_set_progress"
                     => \A i \in DOMAIN enrolledCourses'[ctx[p].u] :
                           enrolledCourses'[ctx[p].u][i] # readList[p][Len(readList[p])]
      ]_vars

\* C22 (amended): when a store call of enrollInCourse, approveCourseEnrollment
\* or markModuleComplete fails, a message is reported and the operation ends
\* there: the handler is idle with its values dropped (no further store call,
\* no retry), and the failing step changes nothing in the store, so that the
\* operation has made none of the writes that come after the failed call;
\* what it wrote before stays.
C22_FailureAborts ==
    [][\A p \in Procs :
          Rejected(p) =>
              /\ ui' \in {"Error enrolling", "Error approving", "Error marking"}
              /\ pc'[p] = "idle"
              /\ ctx'[p] = NoCtx /\ readList'[p] = <<>> /\ readCompleted'[p] = <<>>
              /\ UNCHANGED <<store, identity, now>>
              /\ \A q \in Procs \ {p} : pc'[q] = pc[q] /\ ctx'[q] = ctx[q]
      ]_vars

\* C22 witness: the write of the Progress record of enrollInCourse has been
\* rejected: the message is shown, the Enrollment written before is stored
\* without a Progress record, and no call is pending
C22_Witness ==
    /\ ui = "Error enrolling"
    /\ \A p \in Procs : pc[p] = "idle"
    /\ \E u \in Users, c \in Courses :
          /\ RecordsOf(enrolledCourses[u], c) # {}
          /\ progress[u][c] = NoProgress

\* the number of entries dated after t, summed over the Enrollments of a list
RECURSIVE DatedAfter(_, _, _)
DatedAfter(list, dates, t) ==
    IF list = <<>> THEN 0
    ELSE Cardinality({i \in DOMAIN dates[Head(list).courseId] :
                          dates[Head(list).courseId][i] > t})
         + DatedAfter(Tail(list), dates, t)

\* C23: the dashboard aggregate is purely read-derived: no step of
\* loadAcademicProgress writes the store, and when it has displayed its
\* counts they equal, summed over the Enrollments of the user (active and
\* pending alike), the number of assignments due after the current time and
\* the number of exams dated after the current time.
C23_AggregateReadDerived ==
    [][\A p \in Procs :
          /\ (pc[p] \in AcademicPcs \/ pc'[p] = "academic_get_list")
                 => UNCHANGED <<store, coursework, identity>>
          /\ \A at \in AcademicPcs :
                Took(p, at) /\ pc'[p] = "idle"
                    => LET list == enrolledCourses'[ctx[p].u]
                       IN /\ \A i \in DOMAIN list :
                                list[i].currentStatus \in {"active", "pending_approval"}
                          /\ academicProgress'[p].assignmentsDue
                                 = toText(DatedAfter(list, assignments', now'))
                          /\ academicProgress'[p].upcomingExams
                                 = toText(DatedAfter(list, exams', now'))
      ]_vars

\* C23 witness: the dashboard shows 3 assignments due and 2 upcoming exams
\* for a learner with one pending and one active Enrollment
C23_Witness ==
    /\ pc["p1"] = "idle"
    /\ academicProgress["p1"].assignmentsDue = <<"3">>
    /\ academicProgress["p1"].upcomingExams = <<"2">>
    /\ Len(enrolledCourses[Learner]) = 2
    /\ \E i, j \in DOMAIN enrolledCourses[Learner] :
          /\ enrolledCourses[Learner][i].currentStatus = "pending_approval"
          /\ enrolledCourses[Learner][j].currentStatus = "active"

\* the alert of goNext at a lesson that is not completed
PleaseComplete ==
    "Please complete this lesson (pass the quiz) to unlock the next lesson."

\* C24: in the SmartLearning component progression is sequential: currentIndex
\* increases, from i to i+1, only by goNext in a state where the progress
\* entry of lesson i is marked completed; an entry is marked completed
\* exactly when the quiz graded last for its lesson scored at least
\* minPassPercent (an entry changes only when a quiz is graded, for the
\* current lesson, and then records that score and whether it passes);
\* goNext at a lesson that is not completed leaves currentIndex unchanged.
C24_SequentialProgression ==
    [][/\ currentIndex' > currentIndex
            => /\ currentIndex' = currentIndex + 1
               /\ smartProgress[lessonKey(lessons, currentIndex)].attempted
               /\ smartProgress[lessonKey(lessons, currentIndex)].completed
               /\ smartProgress[lessonKey(lessons, currentIndex)].score >= minPassPercent
       /\ \A k \in LessonKeys :
             /\ smartProgress'[k].attempted /\ smartProgress'[k].completed
                    <=> smartProgress'[k].attempted
                            /\ smartProgress'[k].score >= minPassPercent
             /\ smartProgress'[k] # smartProgress[k]
                    => /\ k = lessonKey(lessons, currentIndex)
                       /\ quiz # NoQuiz /\ score' # NoScore
                       /\ smartProgress'[k].attempted
                       /\ smartProgress'[k].score = score'
       /\ (score' # NoScore /\ score' # score)
             => smartProgress'[lessonKey(lessons, currentIndex)].score = score'
       /\ ui' = PleaseComplete
             => /\ UNCHANGED currentIndex
                /\ ~(/\ smartProgress[lessonKey(lessons, currentIndex)].attempted
                     /\ smartProgress[lessonKey(lessons, currentIndex)].score
                            >= minPassPercent)
      ]_vars

\* C24 witness: lesson a was passed with exactly minPassPercent (3 answers
\* of 5) and goNext has moved to the second lesson
C24_Witness ==
    /\ currentIndex = 1
    /\ Len(lessons) = 2
    /\ lessons[1].id = "a"
    /\ smartProgress["a"].completed
    /\ smartProgress["a"].score = minPassPercent

\* C25 as stated: a call of enrollInCourse that returns from one of its
\* reads for a course absent from the store reports "Course details not
\* found" and has written nothing.
C25_Original ==
    [][\A p \in Procs : \A at \in {"enroll_get_list", "enroll_get_course"} :
          (Took(p, at) /\ pc'[p] = "idle" /\ courses[ctx[p].c].st # "live")
              => /\ ui' = "Error: Course details not found."
                 /\ UNCHANGED store
      ]_vars

\* C25 (amended): enrollInCourse for a course that is absent from the store
\* when the handler reads it, by a user without Enrollment for it in the
\* list read, reports "Course details not found", creates no Enrollment and
\* no Progress record and leaves the list unchanged; when the list read
\* holds an Enrollment for the absent course the call reports "already
\* enrolled or pending" instead, and writes nothing either.
C25_EnrollNotFound ==
    [][\A p \in Procs :
          /\ (Took(p, "enroll_get_course") /\ courses[ctx[p].c].st # "live")
                 => /\ ui' = "Error: Course details not found."
                    /\ pc'[p] = "idle"
                    /\ UNCHANGED store
          /\ (/\ Took(p, "enroll_get_list")
              /\ courses[ctx[p].c].st # "live"
              /\ EnrollmentOf(enrolledCourses[ctx[p].u], ctx[p].c) # <<>>)
                 => /\ ui' \in {"already: Enrollment Pending", "already: Enrolled"}
                    /\ pc'[p] = "idle"
                    /\ UNCHANGED store
      ]_vars

\* C25 witness: the call has reported that the course was not found, the
\* course is absent and the user has no Enrollment and no Progress record
C25_Witness ==
    /\ ui = "Error: Course details not found."
    /\ courses["c1"].st = "deleted"
    /\ \A p \in Procs : pc[p] = "idle"
    /\ enrolledCourses["u1"] = <<>>
    /\ progress["u1"]["c1"] = NoProgress

\* C26: in every reachable state every stored Enrollment has currentStatus
\* 'pending_approval' or 'active'; the Enrollment enrollInCourse writes for
\* its course is 'pending_approval', the one approveCourseEnrollment writes
\* for its course is 'active', and no other step changes an Enrollment list.
C26_StatusValues ==
    /\ [](\A u \in Users : \A i \in DOMAIN enrolledCourses[u] :
             enrolledCourses[u][i].currentStatus \in {"pending_approval", "active"})
    /\ [][\A p \in Procs :
             /\ Took(p, "enroll_set_list")
                    => StatusOf(enrolledCourses'[ctx[p].u], ctx[p].c) = "pending_approval"
             /\ Took(p, "approve_set")
                    => StatusOf(enrolledCourses'[ctx[p].u], ctx[p].c) = "active"
             /\ enrolledCourses' # enrolledCourses
                    => \E q \in Procs : \/ Took(q, "enroll_set_list")
                                        \/ Took(q, "approve_set")
         ]_vars

\* C26 witness: a user holds an approved and a pending Enrollment, both
\* written by the program
C26_Witness ==
    \E u \in Users : \E i, j \in DOMAIN enrolledCourses[u] :
        /\ enrolledCourses[u][i].currentStatus = "active"
        /\ enrolledCourses[u][j].currentStatus = "pending_approval"
        /\ \A p \in Procs : pc[p] = "idle"

\* a Progress record exists for the pair exactly when an Enrollment does
Paired(enrolled, prog, u, c) ==
    prog[u][c] # NoProgress <=> RecordsOf(enrolled[u], c) # {}

EnrollPcs == {"enroll_get_list", "enroll_get_course", "enroll_set_list",
              "enroll_set_progress"}

C28_RoleOnlyAtSignup ==
    [][/\ \A u \in Users :
             role'[u] # role[u]
                 => /\ role'[u] = "student"
                    /\ \E p \in Procs : /\ ctx[p].u = u
                                        /\ \/ Took(p, "signup_set")
                                           \/ Took(p, "portal_set")
       /\ \A p \in Procs :
             Took(p, "admin_get_user")
                 => /\ ui' = "redirect: index.html"
                    /\ pc'[p] = "idle"
                    /\ ~adminView'[p].on
      ]_vars

\* C28 witness: a user created through the signup form has opened the admin
\* page and has been sent back to index.html
C28_Witness ==
    /\ role[Learner] = "student"
    /\ feesBalance[Learner] = signupFees
    /\ email[Staff] = None
    /\ ui = "redirect: index.html"
    /\ pc[LearnerTab] = "idle"

\* C29: whenever the read of users/<uid> by the loadUserData that the
\* identity callback started at signup completes, the record written by the
\* signup handler is present in the store.
C29_RecordPresentAtRead ==
    [][\A p \in Procs :
          (/\ userGet[p] # None
           /\ userGet'[p] = None
           /\ ui' # "loadUserData - Firebase get() FAILED")
              => userDataExists(userGet[p])
      ]_vars

====
